---------------------------- MODULE Spec2Model ----------------------------
(***************************************************************************)
(* Model of the encryption / masking subsystem of envi.                    *)
(*                                                                         *)
(* Text and byte buffers are sequences of byte values 0..255 (ASCII codes  *)
(* for text).  Two implementations live in the repository and both are    *)
(* modelled: the root package (merge.go, pull.go and the masking code      *)
(* carried in README.md) with the ENVI_ENCRYPTED_V1 / ENVI_MASKED[...]     *)
(* wire format, and package internal/encryption with internal/cmd (names   *)
(* prefixed encryption_ here) with the ENVI_ENCRYPTED: / ENVI_MASKED:      *)
(* wire format.                                                            *)
(*                                                                         *)
(* Library code is modelled by what it computes: encoding/base64 is the    *)
(* real RFC 4648 alphabet with padding; bufio.ScanLines, strings.* and the *)
(* regexp of UnmaskEnvContent are computed on the bytes.  AES-256-GCM and  *)
(* SHA-256 cannot be computed here; they are replaced by a keyed stream    *)
(* cipher with a keyed checksum tag (GcmSeal / GcmOpen) and by a           *)
(* position-weighted checksum (Sum256) that have the same interface,       *)
(* lengths and layout (nonce || ciphertext || tag) and are collision free  *)
(* on the inputs enumerated below.                                         *)
(***************************************************************************)
EXTENDS Integers, Sequences, FiniteSets, TLC

\* ------------------------------------------------------------------ bounds
MaxLines == 2

NumNonces == 2

MaxTamperLen == 2

MaxPullLen == 3

\* codec calls made in one process
MaxCalls == 2

\* ------------------------------------------------------- program constants
NonceSize == 12

TagSize == 16

KeyLength == 32

MinPasswordLen == 8

\* ------------------------------------------------------------- characters
LF == 10

CR == 13

HASH == 35

EQ == 61

RBR == 93

EncMarker == <<69, 78, 86, 73, 95, 69, 78, 67, 82, 89, 80, 84, 69, 68, 95, 86, 49, 10>>

EncMarkerNoLF == <<69, 78, 86, 73, 95, 69, 78, 67, 82, 89, 80, 84, 69, 68, 95, 86, 49>>

MaskHeader == <<35, 32, 69, 78, 86, 73, 95, 77, 65, 83, 75, 69, 68, 95, 69, 78, 67, 82, 89, 80, 84, 73, 79, 78, 95, 86, 49>>

MaskOpen == <<61, 69, 78, 86, 73, 95, 77, 65, 83, 75, 69, 68, 91>>

\* package internal/encryption: "ENVI_ENCRYPTED:" and "ENVI_MASKED:"
EncryptionPrefix == <<69, 78, 86, 73, 95, 69, 78, 67, 82, 89, 80, 84, 69, 68, 58>>

MaskedPrefix == <<69, 78, 86, 73, 95, 77, 65, 83, 75, 69, 68, 58>>

\* ------------------------------------------------------- package strings
\* unicode.IsSpace restricted to the ASCII range
IsSpace(c) == c \in {9, 10, 11, 12, 13, 32}

HasPrefix(s, p) == Len(s) >= Len(p) /\ SubSeq(s, 1, Len(p)) = p

\* strings.Index: 1-based offset of the first occurrence of sub, 0 if none
RECURSIVE IndexFrom(_, _, _)
IndexFrom(s, sub, i) ==
  IF i + Len(sub) - 1 > Len(s) THEN 0
  ELSE IF s[i] = sub[1] /\ SubSeq(s, i, i + Len(sub) - 1) = sub THEN i
  ELSE IndexFrom(s, sub, i + 1)

Index(s, sub) == IndexFrom(s, sub, 1)

Contains(s, sub) == Index(s, sub) # 0

TrimPrefix(s, p) == IF HasPrefix(s, p) THEN SubSeq(s, Len(p) + 1, Len(s)) ELSE s

RECURSIVE TrimLeft(_)
TrimLeft(s) == IF Len(s) > 0 /\ IsSpace(s[1]) THEN TrimLeft(Tail(s)) ELSE s

RECURSIVE TrimRight(_)
TrimRight(s) ==
  IF Len(s) > 0 /\ IsSpace(s[Len(s)]) THEN TrimRight(SubSeq(s, 1, Len(s) - 1)) ELSE s

TrimSpace(s) == TrimRight(TrimLeft(s))

RECURSIVE Join(_, _)
Join(lines, sep) ==
  IF Len(lines) = 0 THEN <<>>
  ELSE IF Len(lines) = 1 THEN lines[1]
  ELSE lines[1] \o sep \o Join(Tail(lines), sep)

\* strings.Split(s, "\n"): always at least one element
RECURSIVE Split(_)
Split(s) ==
  LET i == Index(s, <<LF>>)
  IN IF i = 0 THEN <<s>>
     ELSE <<SubSeq(s, 1, i - 1)>> \o Split(SubSeq(s, i + 1, Len(s)))

\* bufio.ScanLines: one trailing CR of a line is dropped
dropCR(line) ==
  IF Len(line) > 0 /\ line[Len(line)] = CR THEN SubSeq(line, 1, Len(line) - 1) ELSE line

\* bufio.Scanner with the default split function: the tokens of s.  A final
\* line without a newline is a token when it is non-empty; nothing follows a
\* final newline.  (Lines stay far below the scanner's 64 KiB token limit.)
RECURSIVE ScanLines(_)
ScanLines(s) ==
  LET i == Index(s, <<LF>>)
  IN IF Len(s) = 0 THEN <<>>
     ELSE IF i = 0 THEN <<dropCR(s)>>
     ELSE <<dropCR(SubSeq(s, 1, i - 1))>> \o ScanLines(SubSeq(s, i + 1, Len(s)))

\* ------------------------------------------------- package encoding/base64
B64Char(n) ==
  IF n < 26 THEN 65 + n
  ELSE IF n < 52 THEN 97 + (n - 26)
  ELSE IF n < 62 THEN 48 + (n - 52)
  ELSE IF n = 62 THEN 43 ELSE 47

\* the 6-bit value of an alphabet character, -1 outside the alphabet
B64Val(c) ==
  IF c >= 65 /\ c <= 90 THEN c - 65
  ELSE IF c >= 97 /\ c <= 122 THEN c - 97 + 26
  ELSE IF c >= 48 /\ c <= 57 THEN c - 48 + 52
  ELSE IF c = 43 THEN 62
  ELSE IF c = 47 THEN 63 ELSE -1

\* base64.StdEncoding.EncodeToString
RECURSIVE EncodeToString(_)
EncodeToString(b) ==
  IF Len(b) = 0 THEN <<>>
  ELSE IF Len(b) = 1 THEN
    <<B64Char(b[1] \div 4), B64Char((b[1] % 4) * 16), EQ, EQ>>
  ELSE IF Len(b) = 2 THEN
    <<B64Char(b[1] \div 4), B64Char((b[1] % 4) * 16 + (b[2] \div 16)),
      B64Char((b[2] % 16) * 4), EQ>>
  ELSE
    <<B64Char(b[1] \div 4), B64Char((b[1] % 4) * 16 + (b[2] \div 16)),
      B64Char((b[2] % 16) * 4 + (b[3] \div 64)), B64Char(b[3] % 64)>>
    \o EncodeToString(SubSeq(b, 4, Len(b)))

\* the decoder skips CR and LF wherever they occur
StripNewlines(s) == SelectSeq(s, LAMBDA c : c # LF /\ c # CR)

BadEncoding == [ok |-> FALSE, out |-> <<>>]

\* one quantum of four characters with values v1..v4 (c3, c4 the third and
\* fourth character, last: no quantum follows, rest: the decoded remainder)
DecodeQuantum(v1, v2, v3, v4, c3, c4, last, rest) ==
  IF v1 < 0 \/ v2 < 0 THEN BadEncoding
  ELSE IF last /\ c3 = EQ /\ c4 = EQ THEN
    [ok |-> TRUE, out |-> <<v1 * 4 + (v2 \div 16)>>]
  ELSE IF v3 < 0 THEN BadEncoding
  ELSE IF last /\ c4 = EQ THEN
    [ok |-> TRUE, out |-> <<v1 * 4 + (v2 \div 16), (v2 % 16) * 16 + (v3 \div 4)>>]
  ELSE IF v4 < 0 \/ ~rest.ok THEN BadEncoding
  ELSE [ok |-> TRUE,
        out |-> <<v1 * 4 + (v2 \div 16), (v2 % 16) * 16 + (v3 \div 4),
                  (v3 % 4) * 64 + v4>> \o rest.out]

RECURSIVE DecodeQuanta(_)
DecodeQuanta(s) ==
  IF Len(s) = 0 THEN [ok |-> TRUE, out |-> <<>>]
  ELSE DecodeQuantum(B64Val(s[1]), B64Val(s[2]), B64Val(s[3]), B64Val(s[4]),
                     s[3], s[4], Len(s) = 4, DecodeQuanta(SubSeq(s, 5, Len(s))))

DecodeStripped(t) == IF Len(t) % 4 # 0 THEN BadEncoding ELSE DecodeQuanta(t)

\* base64.StdEncoding.DecodeString: padded, length a multiple of four
DecodeString(s) == DecodeStripped(StripNewlines(s))

\* ---------------------------------------------------- package crypto/sha256
RECURSIVE WeightedSum(_, _)
WeightedSum(b, i) ==
  IF i > Len(b) THEN 0 ELSE (2 * i - 1) * b[i] + WeightedSum(b, i + 1)

Digest(w) == [i \in 1..KeyLength |-> (w + 13 * i) % 256]

\* sha256.Sum256: a 32-byte digest of the input
Sum256(b) == Digest(WeightedSum(b, 1) + 7 * Len(b))

\* ----------------------------------------------- package crypto/cipher (GCM)
KeyByte(key, i) == key[((i - 1) % Len(key)) + 1]

NonceByte(nonce, i) == nonce[((i - 1) % NonceSize) + 1]

GcmCrypt(key, nonce, data, sign) ==
  [i \in 1..Len(data) |->
     (data[i] + sign * (KeyByte(key, i) + NonceByte(nonce, i) + i)) % 256]

TagOf(key, nonce, w) ==
  [j \in 1..TagSize |-> (KeyByte(key, j) + NonceByte(nonce, j) + w + j) % 256]

GcmTag(key, nonce, ct) == TagOf(key, nonce, WeightedSum(ct, 1) + Len(ct))

SealParts(nonce, ct, key) == nonce \o ct \o GcmTag(key, nonce, ct)

\* gcm.Seal(nonce, nonce, plaintext, nil): nonce || ciphertext || tag
GcmSeal(key, nonce, plaintext) == SealParts(nonce, GcmCrypt(key, nonce, plaintext, 1), key)

OpenParts(key, nonce, ct, tag) ==
  IF tag # GcmTag(key, nonce, ct) THEN [ok |-> FALSE, out |-> <<>>]
  ELSE [ok |-> TRUE, out |-> GcmCrypt(key, nonce, ct, -1)]

\* gcm.Open(nil, nonce, ciphertext, nil): fails unless the tag verifies
GcmOpen(key, nonce, sealed) ==
  IF Len(sealed) < TagSize THEN [ok |-> FALSE, out |-> <<>>]
  ELSE OpenParts(key, nonce, SubSeq(sealed, 1, Len(sealed) - TagSize),
                 SubSeq(sealed, Len(sealed) - TagSize + 1, Len(sealed)))

\* the nonce split off a decoded blob, then gcm.Open
OpenBlob(key, blob) ==
  GcmOpen(key, SubSeq(blob, 1, NonceSize), SubSeq(blob, NonceSize + 1, Len(blob)))

\* ------------------------------------------------------------ key material
\* getKeyFromPassword: the -p flag wins; otherwise the password is read from
\* the terminal and, when useEncryption or useMaskedEncryption is set,
\* read a second time for confirmation.  kin = [flag, typed, confirm].
getKeyFromPassword(kin, useEncryption, useMaskedEncryption) ==
  IF kin.flag # <<>> THEN
    IF Len(kin.flag) < MinPasswordLen
      THEN [err |-> "password_too_short", key |-> <<>>, prompts |-> 0]
      ELSE [err |-> "", key |-> Sum256(kin.flag), prompts |-> 0]
  ELSE IF Len(kin.typed) < MinPasswordLen
    THEN [err |-> "password_too_short", key |-> <<>>, prompts |-> 1]
  ELSE IF useEncryption \/ useMaskedEncryption THEN
    IF kin.typed # kin.confirm
      THEN [err |-> "passwords_do_not_match", key |-> <<>>, prompts |-> 2]
      ELSE [err |-> "", key |-> Sum256(kin.typed), prompts |-> 2]
  ELSE [err |-> "", key |-> Sum256(kin.typed), prompts |-> 1]

\* --------------------------------------------------- whole-file codec (root)
\* EncryptContent: key, fresh nonce, Seal, base64, marker line in front
EncryptContent(content, kr, nonce) ==
  IF kr.err # "" THEN [err |-> "key", out |-> <<>>, nonces |-> <<>>]
  ELSE [err |-> "",
        out |-> EncMarker \o EncodeToString(GcmSeal(kr.key, nonce, content)),
        nonces |-> <<nonce>>]

Failed(e, asked) == [err |-> e, out |-> <<>>, keyAsked |-> asked]

\* the end of DecryptContent: gcm.Open's result
decryptOpenedIgnoresErr(opened) == [err |-> "", out |-> opened.out, keyAsked |-> TRUE]

decryptOpened(opened) ==
  IF ~opened.ok THEN Failed("auth", TRUE)
  ELSE [err |-> "", out |-> opened.out, keyAsked |-> TRUE]

\* DecryptContent after the base64 decode, going on with whatever the
\* decoder returned when it reported an error
decryptDecodedIgnoresDecodeErr(dec, kr) ==
  IF kr.err # "" THEN Failed("key", TRUE)
  ELSE IF Len(dec.out) < NonceSize THEN Failed("too_short", TRUE)
  ELSE decryptOpened(OpenBlob(kr.key, dec.out))

\* DecryptContent after the base64 decode, reporting a blob shorter than a
\* nonce the way a failed gcm.Open is reported
decryptDecodedShortIsAuth(dec, kr) ==
  IF ~dec.ok THEN Failed("decode", FALSE)
  ELSE IF kr.err # "" THEN Failed("key", TRUE)
  ELSE IF Len(dec.out) < NonceSize THEN Failed("auth", TRUE)
  ELSE decryptOpened(OpenBlob(kr.key, dec.out))

\* DecryptContent after the base64 decode, with the nonce left in front of
\* the ciphertext handed to gcm.Open
decryptDecodedKeepsNonce(dec, kr) ==
  IF ~dec.ok THEN Failed("decode", FALSE)
  ELSE IF kr.err # "" THEN Failed("key", TRUE)
  ELSE IF Len(dec.out) < NonceSize THEN Failed("too_short", TRUE)
  ELSE decryptOpened(GcmOpen(kr.key, SubSeq(dec.out, 1, NonceSize), dec.out))

\* DecryptContent acquiring the key before it looks at the content
DecryptContentKeyFirst(content, kr) ==
  IF kr.err # "" THEN Failed("key", TRUE)
  ELSE IF ~HasPrefix(content, EncMarker) THEN Failed("not_encrypted", TRUE)
  ELSE IF ~DecodeString(TrimPrefix(content, EncMarker)).ok THEN Failed("decode", TRUE)
  ELSE IF Len(DecodeString(TrimPrefix(content, EncMarker)).out) < NonceSize
    THEN Failed("too_short", TRUE)
  ELSE decryptOpened(OpenBlob(kr.key, DecodeString(TrimPrefix(content, EncMarker)).out))

\* DecryptContent after the base64 decode: key, length check, nonce split, Open
decryptDecoded(dec, kr) ==
  IF ~dec.ok THEN Failed("decode", FALSE)
  ELSE IF kr.err # "" THEN Failed("key", TRUE)
  ELSE IF Len(dec.out) < NonceSize THEN Failed("too_short", TRUE)
  ELSE decryptOpened(OpenBlob(kr.key, dec.out))

\* DecryptContent: marker check, then the decoded remainder
DecryptContent(content, kr) ==
  IF ~HasPrefix(content, EncMarker) THEN Failed("not_encrypted", FALSE)
  ELSE decryptDecoded(DecodeString(TrimPrefix(content, EncMarker)), kr)

IsEncrypted(content) == HasPrefix(content, EncMarker)

\* encryptValue sealing under a nonce of zeros instead of the one it read
encryptValueFixedNonce(value, key, nonce) ==
  EncodeToString(GcmSeal(key, [i \in 1..NonceSize |-> 0], value))

\* ------------------------------------------------------ masking codec (root)
encryptValue(value, key, nonce) == EncodeToString(GcmSeal(key, nonce, value))

valueOpenedIgnoresErr(opened) == [err |-> "", out |-> opened.out]

\* the end of decryptValue: gcm.Open's result
valueOpened(opened) ==
  IF ~opened.ok THEN [err |-> "auth", out |-> <<>>]
  ELSE [err |-> "", out |-> opened.out]

valueDecoded(dec, key) ==
  IF ~dec.ok THEN [err |-> "decode", out |-> <<>>]
  ELSE IF Len(dec.out) < NonceSize THEN [err |-> "too_short", out |-> <<>>]
  ELSE valueOpened(OpenBlob(key, dec.out))

decryptValue(encodedValue, key) == valueDecoded(DecodeString(encodedValue), key)

\* the value test of the scanner loop, eq the offset of the first '='
hasValueOnEmpty(line, eq) == eq # 0

hasValue(line, eq) ==
  IF eq = 0 THEN FALSE
  ELSE TrimSpace(SubSeq(line, eq + 1, Len(line))) # <<>>

\* the blank / comment test of the scanner loop
isBlankOrCommentNoComment(line) == line = <<>>

isBlankOrComment(line) == line = <<>> \/ HasPrefix(TrimSpace(line), <<HASH>>)

\* the three `continue` tests of MaskEnvContent's scanner loop: FALSE when
\* the line is appended as it is, TRUE when encryptValue is called for it
reachesEncryptValue(line) ==
  IF isBlankOrComment(line) THEN FALSE ELSE hasValue(line, Index(line, <<EQ>>))

\* the masked line built around the last '=' of the line
LastEq(line) ==
  CHOOSE k \in 1..Len(line) : line[k] = EQ /\ \A j \in (k + 1)..Len(line) : line[j] # EQ

maskPartsAtLastEq(line, eq, key, nonce) ==
  SubSeq(line, 1, LastEq(line) - 1) \o MaskOpen
    \o encryptValue(SubSeq(line, LastEq(line) + 1, Len(line)), key, nonce) \o <<RBR>>

\* fmt.Sprintf("%s=ENVI_MASKED[%s]", keyName, encryptedValue)
maskParts(line, eq, key, nonce) ==
  SubSeq(line, 1, eq - 1) \o MaskOpen
    \o encryptValue(SubSeq(line, eq + 1, Len(line)), key, nonce) \o <<RBR>>

maskLine(line, key, nonce) == maskParts(line, Index(line, <<EQ>>), key, nonce)

Sealed(line, nonce, rest) ==
  [lines |-> <<line>> \o rest.lines, nonces |-> <<nonce>> \o rest.nonces]

Kept(line, rest) == [lines |-> <<line>> \o rest.lines, nonces |-> rest.nonces]

\* the scanner loop; rand yields the nonce of the n-th read of rand.Reader
RECURSIVE maskLines(_, _, _, _)
maskLines(lines, key, rand, used) ==
  IF Len(lines) = 0 THEN [lines |-> <<>>, nonces |-> <<>>]
  ELSE IF reachesEncryptValue(lines[1])
    THEN Sealed(maskLine(lines[1], key, rand[used + 1]), rand[used + 1],
                maskLines(Tail(lines), key, rand, used + 1))
    ELSE Kept(lines[1], maskLines(Tail(lines), key, rand, used))

\* the header line appended twice
maskedTwoHeaders(m) ==
  [err |-> "", out |-> Join(<<MaskHeader, MaskHeader>> \o m.lines, <<LF>>),
   nonces |-> m.nonces]

maskedNoHeader(m) == [err |-> "", out |-> Join(m.lines, <<LF>>), nonces |-> m.nonces]

\* the header line in front, strings.Join
masked(m) ==
  [err |-> "", out |-> Join(<<MaskHeader>> \o m.lines, <<LF>>), nonces |-> m.nonces]

MaskEnvContent(content, kr, rand) ==
  IF kr.err # "" THEN [err |-> "key", out |-> <<>>, nonces |-> <<>>]
  ELSE masked(maskLines(ScanLines(content), kr.key, rand, 0))

regexGroup(after, close) ==
  IF close = 0 THEN [matched |-> FALSE, group |-> <<>>]
  ELSE [matched |-> TRUE, group |-> SubSeq(after, 1, close - 1)]

regexAfter(after) == regexGroup(after, Index(after, <<RBR>>))

regexAt(line, at) ==
  IF at = 0 THEN [matched |-> FALSE, group |-> <<>>]
  ELSE regexAfter(SubSeq(line, at + Len(MaskOpen), Len(line)))

\* regexp `=ENVI_MASKED\[(.*?)\]`: the leftmost "=ENVI_MASKED[" that is
\* followed by a "]"; the group is the text up to the first such "]"
maskedValueRegex(line) == regexAt(line, Index(line, MaskOpen))

Prepend(line, rest) ==
  IF rest.err # "" THEN rest ELSE [err |-> "", lines |-> <<line>> \o rest.lines]

\* a line that matched: decryptValue's result d, then the rest of the loop;
\* here a line that fails to decrypt is kept and the loop goes on
unmaskMatchedSkipsBadLine(line, d, rest) ==
  IF d.err # "" THEN Prepend(line, rest)
  ELSE Prepend(SubSeq(line, 1, Index(line, <<EQ>>) - 1) \o <<EQ>> \o d.out, rest)

\* a line that matched: decryptValue's result d, then the rest of the loop
unmaskMatched(line, d, rest) ==
  IF d.err # "" THEN [err |-> d.err, lines |-> <<>>]
  ELSE Prepend(SubSeq(line, 1, Index(line, <<EQ>>) - 1) \o <<EQ>> \o d.out, rest)

\* one iteration of UnmaskEnvContent's scanner loop (m the regexp match)
unmaskLine(line, m, key, rest) ==
  IF TrimSpace(line) = MaskHeader THEN rest
  ELSE IF m.matched THEN unmaskMatched(line, decryptValue(m.group, key), rest)
  ELSE Prepend(line, rest)

RECURSIVE unmaskLines(_, _)
unmaskLines(lines, key) ==
  IF Len(lines) = 0 THEN [err |-> "", lines |-> <<>>]
  ELSE unmaskLine(lines[1], maskedValueRegex(lines[1]), key,
                  unmaskLines(Tail(lines), key))

unmasked(u) ==
  IF u.err # "" THEN Failed(u.err, TRUE)
  ELSE [err |-> "", out |-> Join(u.lines, <<LF>>), keyAsked |-> TRUE]

UnmaskEnvContent(content, kr) ==
  IF ~Contains(content, MaskHeader) THEN Failed("not_masked", FALSE)
  ELSE IF kr.err # "" THEN Failed("key", TRUE)
  ELSE unmasked(unmaskLines(ScanLines(content), kr.key))

IsMaskedEncrypted(content) == Contains(content, MaskHeader)

\* ------------------------------------------- package internal/encryption
hashPassword(password) == Sum256(password)

\* getEncryptionKey without a key file: the password flag, else the
\* password typed at the prompt, which must not be empty
getEncryptionKey(kin) ==
  IF kin.flag # <<>> THEN [err |-> "", key |-> hashPassword(kin.flag), prompts |-> 0]
  ELSE IF kin.typed = <<>> THEN [err |-> "password_empty", key |-> <<>>, prompts |-> 1]
  ELSE [err |-> "", key |-> hashPassword(kin.typed), prompts |-> 1]

encryption_IsEncrypted(content) == HasPrefix(content, EncryptionPrefix)

encryption_IsMasked(content) == Contains(content, MaskedPrefix)

encryption_EncryptContent(content, kr, nonce) ==
  IF kr.err # "" THEN [err |-> "key", out |-> <<>>, nonces |-> <<>>]
  ELSE [err |-> "",
        out |-> EncryptionPrefix \o EncodeToString(GcmSeal(kr.key, nonce, content)),
        nonces |-> <<nonce>>]

encryption_decryptOpened(opened) ==
  IF ~opened.ok THEN Failed("auth", TRUE)
  ELSE [err |-> "", out |-> opened.out, keyAsked |-> TRUE]

encryption_decryptDecoded(dec, kr) ==
  IF ~dec.ok THEN Failed("decode", FALSE)
  ELSE IF kr.err # "" THEN Failed("key", TRUE)
  ELSE IF Len(dec.out) < NonceSize THEN Failed("too_short", TRUE)
  ELSE encryption_decryptOpened(OpenBlob(kr.key, dec.out))

encryption_DecryptContent(content, kr) ==
  IF ~encryption_IsEncrypted(content) THEN Failed("not_encrypted", FALSE)
  ELSE encryption_decryptDecoded(
         DecodeString(SubSeq(content, Len(EncryptionPrefix) + 1, Len(content))), kr)

\* comments and lines that are empty once trimmed
encryption_isCommentOrBlank(line) ==
  HasPrefix(TrimSpace(line), <<HASH>>) \/ TrimSpace(line) = <<>>

\* the v == "" test, eq the offset of the first '='
encryption_hasValue(line, eq) == eq # 0 /\ eq < Len(line)

\* TRUE when MaskEnvContent seals the value of the line
encryption_sealsValue(line) ==
  IF encryption_isCommentOrBlank(line) THEN FALSE
  ELSE encryption_hasValue(line, Index(line, <<EQ>>))

\* k + MaskedPrefix + base64(Seal(v)) with k the line up to and with '='
encryption_maskParts(line, eq, key, nonce) ==
  SubSeq(line, 1, eq) \o MaskedPrefix
    \o EncodeToString(GcmSeal(key, nonce, SubSeq(line, eq + 1, Len(line))))

RECURSIVE encryption_maskLines(_, _, _, _)
encryption_maskLines(lines, key, rand, used) ==
  IF Len(lines) = 0 THEN [lines |-> <<>>, nonces |-> <<>>]
  ELSE IF encryption_sealsValue(lines[1])
    THEN Sealed(encryption_maskParts(lines[1], Index(lines[1], <<EQ>>), key,
                                     rand[used + 1]),
                rand[used + 1],
                encryption_maskLines(Tail(lines), key, rand, used + 1))
    ELSE Kept(lines[1], encryption_maskLines(Tail(lines), key, rand, used))

encryption_masked(m) ==
  [err |-> "", out |-> Join(m.lines, <<LF>>), nonces |-> m.nonces]

encryption_MaskEnvContent(content, kr, rand) ==
  IF kr.err # "" THEN [err |-> "key", out |-> <<>>, nonces |-> <<>>]
  ELSE encryption_masked(encryption_maskLines(Split(content), kr.key, rand, 0))

encryption_valueOpened(opened) ==
  IF ~opened.ok THEN [err |-> "auth", out |-> <<>>]
  ELSE [err |-> "", out |-> opened.out]

encryption_valueDecoded(dec, key) ==
  IF ~dec.ok THEN [err |-> "decode", out |-> <<>>]
  ELSE IF Len(dec.out) < NonceSize THEN [err |-> "too_short", out |-> <<>>]
  ELSE encryption_valueOpened(OpenBlob(key, dec.out))

\* a masked value d decoded and opened: k + plaintext, or the error
encryption_unmaskValue(line, eq, d, rest) ==
  IF d.err # "" THEN [err |-> d.err, lines |-> <<>>]
  ELSE Prepend(SubSeq(line, 1, eq) \o d.out, rest)

\* one iteration of UnmaskEnvContent's loop, eq the offset of the first '='
encryption_unmaskLine(line, eq, key, rest) ==
  IF encryption_isCommentOrBlank(line) THEN Prepend(line, rest)
  ELSE IF eq = 0 THEN Prepend(line, rest)
  ELSE IF ~HasPrefix(SubSeq(line, eq + 1, Len(line)), MaskedPrefix)
    THEN Prepend(line, rest)
  ELSE encryption_unmaskValue(
         line, eq,
         encryption_valueDecoded(
           DecodeString(SubSeq(line, eq + 1 + Len(MaskedPrefix), Len(line))), key),
         rest)

RECURSIVE encryption_unmaskLines(_, _)
encryption_unmaskLines(lines, key) ==
  IF Len(lines) = 0 THEN [err |-> "", lines |-> <<>>]
  ELSE encryption_unmaskLine(lines[1], Index(lines[1], <<EQ>>), key,
                             encryption_unmaskLines(Tail(lines), key))

encryption_unmasked(u) ==
  IF u.err # "" THEN Failed(u.err, TRUE)
  ELSE [err |-> "", out |-> Join(u.lines, <<LF>>), keyAsked |-> TRUE]

encryption_UnmaskEnvContent(content, kr) ==
  IF kr.err # "" THEN Failed("key", TRUE)
  ELSE encryption_unmasked(encryption_unmaskLines(Split(content), kr.key))

\* ------------------------------------------------------------------ inputs
\* lines a .env file is made of: blank, comment "# c", assignment "A=v",
\* empty value "A=", whitespace-only value "A= ", no '=' "A"
LinePool ==
  { <<>>, <<35, 32, 99>>, <<65, 61, 118>>, <<65, 61>>, <<65, 61, 32>>, <<65>> }

\* documents with a value holding '=', CRLF line ends, a comment equal to
\* the masked marker, a comment carrying the masked-value pattern, and an
\* indented comment, and a first line equal to the whole-file marker
SpecialDocs ==
  { <<66, 61, 120, 61, 121>>,
    <<35, 32, 99, 13, 10, 65, 61, 118, 13, 10>>,
    <<65, 61, 118, 10>> \o MaskHeader \o <<10, 65>>,
    <<65, 61, 118, 10, 35, 61, 69, 78, 86, 73, 95, 77, 65, 83, 75, 69, 68, 91, 93>>,
    <<32, 35, 61, 10, 32>>,
    EncMarker \o <<65>> }

Docs ==
  { Join(ls, <<LF>>) \o t :
      ls \in UNION {[1..n -> LinePool] : n \in 0..MaxLines}, t \in {<<>>, <<LF>>} }
  \cup SpecialDocs

\* arbitrary bytes for the whole-file codec
RawContents == { <<0>>, <<255, 0, 128>>, EncMarkerNoLF }

\* remote content that no encode call of this program produced
ForeignContents ==
  { EncMarker \o MaskHeader,                     \* both markers
    EncMarkerNoLF,                               \* marker without its newline
    EncMarker \o <<33, 33, 33, 33>>,             \* invalid base64
    EncMarker \o <<81, 85, 74, 68>>,             \* decodes to 3 bytes
    EncMarker \o [i \in 1..16 |-> 65],           \* decodes to NonceSize zero bytes
    MaskHeader \o <<LF, 65, 61, 69, 78, 86, 73, 95, 77, 65, 83, 75, 69, 68, 91, 81, 85, 74, 68, 93>>,
    EncryptionPrefix \o <<65, 61>> \o MaskedPrefix \o <<81, 85, 74, 68>>,  \* both prefixes
    <<65, 61>> \o MaskedPrefix \o <<33>> }       \* masked value, invalid base64

Nonces == { [i \in 1..NonceSize |-> n] : n \in 1..NumNonces }

pwA == <<112, 119, 45, 111, 110, 101, 45, 49>>

pwB == <<112, 119, 45, 116, 119, 111, 45, 50>>

pwShort == <<115, 104, 111, 114, 116>>

\* what the user supplies to key acquisition: the -p flag, or what is typed
\* at the prompt and at the confirmation prompt
KeyInputs ==
  { [flag |-> pwA, typed |-> <<>>, confirm |-> <<>>],
    [flag |-> pwB, typed |-> <<>>, confirm |-> <<>>],
    [flag |-> pwShort, typed |-> <<>>, confirm |-> <<>>],
    [flag |-> <<>>, typed |-> pwB, confirm |-> pwB],
    [flag |-> <<>>, typed |-> pwA, confirm |-> pwB],
    [flag |-> <<>>, typed |-> <<>>, confirm |-> <<>>] }

\* ------------------------------------------------------------------- state
VARIABLES
  stage,      \* what content is: "plain", "foreign", "encrypted", "masked",
              \* or, made by package internal/encryption, "encrypted_i", "masked_i"
  src,        \* the plaintext the content was made from
  content,    \* the buffer as stored remotely
  encKey,     \* the key the content was produced under, <<>> if none
  nonceLog,   \* the nonces read from rand.Reader while producing content
  tampered,   \* a bit of the stored content was flipped
  res,        \* outcome of the last codec call; op = "none" before it
  pull,       \* what the last pull detected and did
  dotenv,     \* the local .env file
  globals,    \* the package-level encryption variables of one process
  files,      \* the key files on disk, by path
  ncalls,     \* codec calls made so far in that process
  asked,      \* password prompts shown by the last codec call of that process
  config,     \* the saved configuration file ~/.envi/config.json
  keyring,    \* the token held by the system credential store, <<>> if none
  run,        \* the flags and the outcome of the last `envi config`
  localVars,  \* the variables parsed from the local .env file
  remoteVars, \* the variables parsed from the Gist's .env file
  merge       \* the flags and the outcome of the last `envi merge`

vars ==
  <<stage, src, content, encKey, nonceLog, tampered, res, pull, dotenv,
    globals, files, ncalls, asked, config, keyring, run, localVars, remoteVars, merge>>

\* the state of the codecs and of pull
codecVars == <<stage, src, content, encKey, nonceLog, tampered, res, pull, dotenv>>

\* the state `envi config` works on
cfgVars == <<config, keyring, run>>

\* the state `envi merge` works on
mergeVars == <<localVars, remoteVars, merge>>

\* the state of the process that acquires keys from flags and key files
keyVars == <<globals, files, ncalls, asked>>

NoRes == [op |-> "none", err |-> "", out |-> <<>>, key |-> <<>>, keyAsked |-> FALSE]

NoPull ==
  [impl |-> "none", ran |-> FALSE, canceled |-> FALSE, both |-> FALSE, isEncrypted |-> FALSE,
   isMasked |-> FALSE, useEncryption |-> FALSE, useMaskedEncryption |-> FALSE,
   transform |-> "none", err |-> "", wrote |-> FALSE]

\* the .env file present before a pull
OldEnv == <<111, 108, 100>>

\* --------------------------------------------------- key files and globals
\* the --key-file default ".envi.key", the path "~/k", the home directory
\* "/h" and the path "/h/k" that "~/k" expands to
DefaultKeyFile == <<46, 101, 110, 118, 105, 46, 107, 101, 121>>

TildeKeyFile == <<126, 47, 107>>

HomeDir == <<47, 104>>

HomeKeyFile == <<47, 104, 47, 107>>

Paths == {DefaultKeyFile, HomeKeyFile}

NoFile == [exists |-> FALSE, data |-> <<>>]

NoFiles == [p \in Paths |-> NoFile]

\* os.Stat / os.ReadFile on a path
FileAt(fs, path) == IF path \in DOMAIN fs THEN fs[path] ELSE NoFile

\* the values of the package-level variables when no flag is given
DefaultGlobals ==
  [encryptionKeyFile |-> DefaultKeyFile, useKeyFile |-> FALSE, autoGenKey |-> FALSE,
   useEncryption |-> FALSE, useMaskedEncryption |-> FALSE,
   encryptionPassword |-> <<>>]

\* "~/rest" becomes filepath.Join(homeDir, rest); the result is stored back
\* into encryptionKeyFile by getKeyFromFile and generateAndSaveKey
ExpandHome(path) ==
  IF HasPrefix(path, <<126, 47>>)
    THEN HomeDir \o <<47>> \o SubSeq(path, 3, Len(path))
    ELSE path

\* getKeyFromFile going on to the length check without looking at os.Stat's
\* error
keyFromFileAtNoStat(f, path) ==
  IF Len(f.data) # KeyLength
    THEN [err |-> "invalid_key_file", key |-> <<>>, keyFile |-> path]
  ELSE [err |-> "", key |-> f.data, keyFile |-> path]

\* getKeyFromFile once the path is expanded: the file must exist and hold
\* exactly KeyLength bytes
keyFromFileAt(f, path) ==
  IF ~f.exists THEN [err |-> "key_file_not_found", key |-> <<>>, keyFile |-> path]
  ELSE IF Len(f.data) # KeyLength
    THEN [err |-> "invalid_key_file", key |-> <<>>, keyFile |-> path]
  ELSE [err |-> "", key |-> f.data, keyFile |-> path]

getKeyFromFileAt(fs, path) == keyFromFileAt(FileAt(fs, path), path)

\* getKeyFromFile; keyFile is the value encryptionKeyFile is left with
getKeyFromFile(g, fs) == getKeyFromFileAt(fs, ExpandHome(g.encryptionKeyFile))

\* generateAndSaveKey writing the new key without looking for a file first
generateAndSaveKeyAtOverwrites(fs, path, key) ==
  [err |-> "", key |-> key, keyFile |-> path,
   files |-> [p \in DOMAIN fs \cup {path} |->
                IF p = path THEN [exists |-> TRUE, data |-> key]
                ELSE fs[p]]]

\* generateAndSaveKey once the path is expanded; key is what rand.Reader gave
generateAndSaveKeyAt(fs, path, key) ==
  IF FileAt(fs, path).exists
    THEN [err |-> "key_file_already_exists", key |-> <<>>, keyFile |-> path,
          files |-> fs]
    ELSE [err |-> "", key |-> key, keyFile |-> path,
          files |-> [p \in DOMAIN fs \cup {path} |->
                       IF p = path THEN [exists |-> TRUE, data |-> key]
                       ELSE fs[p]]]

generateAndSaveKey(keyFile, fs, key) ==
  generateAndSaveKeyAt(fs, ExpandHome(keyFile), key)

\* what a key acquisition leaves behind: the key or the error, the prompts
\* shown, the value of encryptionKeyFile and the key files
Acquired(err, key, prompts, keyFile, fs, generated) ==
  [err |-> err, key |-> key, prompts |-> prompts, keyFile |-> keyFile,
   files |-> fs, generated |-> generated]

keyGenerated(gen) ==
  IF gen.err # ""
    THEN Acquired("generate_key", <<>>, 0, gen.keyFile, gen.files, FALSE)
    ELSE Acquired("", gen.key, 0, gen.keyFile, gen.files, TRUE)

\* the useKeyFile branch of EncryptContent / MaskEnvContent: f is what
\* getKeyFromFile returned; on its error the key is generated when
\* --generate-key was given
keyFromFileOrNew(f, autoGenKey, fs, newKey) ==
  IF f.err = "" THEN Acquired("", f.key, 0, f.keyFile, fs, FALSE)
  ELSE IF autoGenKey THEN keyGenerated(generateAndSaveKey(f.keyFile, fs, newKey))
  ELSE Acquired("key_file", <<>>, 0, f.keyFile, fs, FALSE)

keyFromFileOnly(f, fs) ==
  IF f.err = "" THEN Acquired("", f.key, 0, f.keyFile, fs, FALSE)
  ELSE Acquired("key_file", <<>>, 0, f.keyFile, fs, FALSE)

keyFromPassword(pw, g, fs) ==
  Acquired(pw.err, pw.key, pw.prompts, g.encryptionKeyFile, fs, FALSE)

\* the password the process works with: the -p flag of the globals, what is
\* typed at the prompt and at the confirmation prompt
PasswordInput(g, typed) ==
  [flag |-> g.encryptionPassword, typed |-> typed.typed, confirm |-> typed.confirm]

\* the key acquisition of EncryptContent and MaskEnvContent
encodeKey(g, fs, typed, newKey) ==
  IF g.useKeyFile
    THEN keyFromFileOrNew(getKeyFromFile(g, fs), g.autoGenKey, fs, newKey)
    ELSE keyFromPassword(
           getKeyFromPassword(PasswordInput(g, typed), g.useEncryption,
                              g.useMaskedEncryption), g, fs)

\* the key acquisition of DecryptContent and UnmaskEnvContent
decodeKey(g, fs, typed) ==
  IF g.useKeyFile
    THEN keyFromFileOnly(getKeyFromFile(g, fs), fs)
    ELSE keyFromPassword(
           getKeyFromPassword(PasswordInput(g, typed), g.useEncryption,
                              g.useMaskedEncryption), g, fs)

\* internal/encryption getKeyFromFile on the trimmed content key, dec its
\* base64 decoding: the decoded bytes when there are KeyLength of them, else
\* the content itself when it has KeyLength bytes, else its hash
encryption_keyOfForms(key, dec) ==
  IF dec.ok /\ Len(dec.out) = KeyLength THEN dec.out
  ELSE IF Len(key) = KeyLength THEN key
  ELSE hashPassword(key)

encryption_keyOfTrimmed(key) == encryption_keyOfForms(key, DecodeString(key))

\* internal/encryption getKeyFromFile: os.ReadFile, bytes.TrimSpace, the forms
encryption_getKeyFromFile(f) ==
  IF ~f.exists THEN [err |-> "key_file_read", key |-> <<>>, prompts |-> 0]
  ELSE [err |-> "", key |-> encryption_keyOfTrimmed(TrimSpace(f.data)), prompts |-> 0]

\* internal/encryption getEncryptionKey: the key file when UseKeyFile is
\* set (EncryptionKeyFile is opened as it is), else the password
encryption_getEncryptionKeyOf(g, fs, typed) ==
  IF g.useKeyFile THEN encryption_getKeyFromFile(FileAt(fs, g.encryptionKeyFile))
  ELSE getEncryptionKey(PasswordInput(g, typed))

\* ------------------------------------------------------------ envi config
\* the fields of Config the token and encryption flags of `envi config`
\* work on; the zero value is what LoadConfig returns when no file exists
NoConfig ==
  [GitHubToken |-> <<>>, TokenInKeyring |-> FALSE,
   EncryptByDefault |-> FALSE, UseMaskedEncryption |-> FALSE]

NoRun ==
  [ran |-> FALSE, token |-> <<>>, forceFileStorage |-> FALSE, clearToken |-> FALSE,
   encryptByDefault |-> FALSE, maskByDefault |-> FALSE,
   disableEncryption |-> FALSE, returned |-> FALSE, deleteErr |-> FALSE]

\* "github_pat_", "ghp_", "gho_", "ghu_", "ghs_"
TokenPrefixes ==
  { <<103, 105, 116, 104, 117, 98, 95, 112, 97, 116, 95>>, <<103, 104, 112, 95>>,
    <<103, 104, 111, 95>>, <<103, 104, 117, 95>>, <<103, 104, 115, 95>> }

\* [0-9a-f]
IsHexDigit(c) == (c >= 48 /\ c <= 57) \/ (c >= 97 /\ c <= 102)

isValidGitHubToken(token) ==
  IF Len(token) < 30 THEN FALSE
  ELSE \/ \E p \in TokenPrefixes : HasPrefix(token, p)
       \/ (Len(token) = 40 /\ \A i \in 1..40 : IsHexDigit(token[i]))
       \/ Len(token) >= 36

\* LoadConfig: a token found in the file is moved to the keyring when it is
\* valid and keyring.Set succeeds (setOk)
LoadConfig(file, kr, setOk) ==
  IF /\ file.GitHubToken # <<>> /\ ~file.TokenInKeyring
     /\ isValidGitHubToken(file.GitHubToken) /\ setOk
    THEN [config |-> [file EXCEPT !.GitHubToken = <<>>, !.TokenInKeyring = TRUE],
          keyring |-> file.GitHubToken, returned |-> FALSE, deleteErr |-> FALSE]
    ELSE [config |-> file, keyring |-> kr, returned |-> FALSE, deleteErr |-> FALSE]

tokenToFile(s, token) ==
  [s EXCEPT !.config.GitHubToken = token, !.config.TokenInKeyring = FALSE]

tokenToKeyring(s, token) ==
  [s EXCEPT !.config.GitHubToken = <<>>, !.config.TokenInKeyring = TRUE,
            !.keyring = token]

\* the `return` statements of the token block: nothing below them runs
Returned(s) == [s EXCEPT !.returned = TRUE]

\* "Handle token update": f the flags; env.setOk whether keyring.Set
\* succeeds, env.yes the answer to "store the token in the config file instead?"
setToken(s, f, env) ==
  IF f.token = <<>> THEN s
  ELSE IF ~isValidGitHubToken(f.token) THEN Returned(s)
  ELSE IF f.forceFileStorage THEN tokenToFile(s, f.token)
  ELSE IF ~env.setOk THEN (IF env.yes THEN tokenToFile(s, f.token) ELSE Returned(s))
  ELSE tokenToKeyring(s, f.token)

\* "Handle clearing token": DeleteTokenFromKeyring is called when
\* TokenInKeyring is set; when it fails (env.delOk is FALSE) a warning is
\* printed, the entry stays as it is and the flag is cleared all the same
clearTokenStep(s, f, env) ==
  IF s.returned \/ ~f.clearToken THEN s
  ELSE [s EXCEPT !.config.GitHubToken = <<>>, !.config.TokenInKeyring = FALSE,
                 !.keyring = IF s.config.TokenInKeyring /\ env.delOk
                               THEN <<>> ELSE s.keyring,
                 !.deleteErr = s.config.TokenInKeyring /\ ~env.delOk]

\* --encrypt-by-default / --mask-by-default
enableEncryption(c, f) ==
  IF f.encryptByDefault
    THEN [c EXCEPT !.EncryptByDefault = TRUE, !.UseMaskedEncryption = f.maskByDefault]
  ELSE IF f.maskByDefault
    THEN [c EXCEPT !.EncryptByDefault = TRUE, !.UseMaskedEncryption = TRUE]
  ELSE c

\* --disable-encryption clearing EncryptByDefault only
disableEncryptionKeepsMask(c, f) ==
  IF f.disableEncryption THEN [c EXCEPT !.EncryptByDefault = FALSE] ELSE c

\* --disable-encryption
disableEncryption(c, f) ==
  IF f.disableEncryption
    THEN [c EXCEPT !.EncryptByDefault = FALSE, !.UseMaskedEncryption = FALSE]
    ELSE c

\* "Handle encryption settings"
encryptionSettings(s, f) ==
  IF s.returned THEN s
  ELSE [s EXCEPT !.config = disableEncryption(enableEncryption(s.config, f), f)]

\* the Run function of configCmd; every change made in memory is saved
\* with SaveConfig before the function ends
configCmd(file, kr, f, env) ==
  encryptionSettings(
    clearTokenStep(setToken(LoadConfig(file, kr, env.setOk), f, env), f, env), f)

\* a valid token ("ghp_" and 26 letters) and one that is too short
TokenA == <<103, 104, 112, 95>> \o [i \in 1..26 |-> 97]

TokenShort == <<103, 104, 112, 95, 97>>

ConfigFlags ==
  [token : {<<>>, TokenA, TokenShort}, forceFileStorage : BOOLEAN,
   clearToken : BOOLEAN, encryptByDefault : BOOLEAN, maskByDefault : BOOLEAN,
   disableEncryption : BOOLEAN]

\* what the keyring and the user do during one invocation
ConfigEnvs == [setOk : BOOLEAN, yes : BOOLEAN, delOk : BOOLEAN]

\* ------------------------------------------------------------- envi merge
NoVars == [k \in {} |-> ""]

NoMerge ==
  [ran |-> FALSE, rejected |-> FALSE, preferLocalFlag |-> FALSE,
   preferRemoteFlag |-> FALSE, read |-> FALSE, wrote |-> FALSE,
   mergedVars |-> NoVars]

\* the value of a key both sides have with different values, the remote
\* value kept whatever the flags say
conflictValueRemoteWins(localValue, remoteValue, f, choice) == remoteValue

\* the value of a key both sides have with different values: --local,
\* --remote, else the answer to "Choose value (1/2)" (anything but "2"
\* gives the local value)
conflictValue(localValue, remoteValue, f, choice) ==
  IF f.preferLocalFlag THEN localValue
  ELSE IF f.preferRemoteFlag THEN remoteValue
  ELSE IF choice = "2" THEN remoteValue
  ELSE localValue

\* mergedVars[key] after the loops over remoteVars and localVars
mergedValue(key, lv, rv, f, choices) ==
  IF key \notin DOMAIN lv THEN rv[key]
  ELSE IF key \notin DOMAIN rv THEN lv[key]
  ELSE IF lv[key] = rv[key] THEN rv[key]
  ELSE conflictValue(lv[key], rv[key], f, choices[key])

mergedVarsOf(lv, rv, f, choices) ==
  [key \in DOMAIN lv \cup DOMAIN rv |-> mergedValue(key, lv, rv, f, choices)]

\* the Run function of mergeCmd: both flags end it before .env is looked
\* at; otherwise both files are parsed, merged and .env is written
mergeCmd(lv, rv, f, choices) ==
  IF f.preferLocalFlag /\ f.preferRemoteFlag
    THEN [ran |-> TRUE, rejected |-> TRUE, preferLocalFlag |-> TRUE,
          preferRemoteFlag |-> TRUE, read |-> FALSE, wrote |-> FALSE,
          mergedVars |-> NoVars]
    ELSE [ran |-> TRUE, rejected |-> FALSE, preferLocalFlag |-> f.preferLocalFlag,
          preferRemoteFlag |-> f.preferRemoteFlag, read |-> TRUE, wrote |-> TRUE,
          mergedVars |-> mergedVarsOf(lv, rv, f, choices)]

\* the variable names and values of the two files, the flags and the answers
MergeKeys == {"A", "B"}

MergeValues == {"1", "2"}

VarMaps == UNION { [d -> MergeValues] : d \in SUBSET MergeKeys }

MergeFlags == [preferLocalFlag : BOOLEAN, preferRemoteFlag : BOOLEAN]

MergeChoices == [MergeKeys -> {"1", "2", ""}]

Init ==
  /\ \/ stage = "plain" /\ src \in (Docs \cup RawContents) /\ content = src
     \/ stage = "foreign" /\ src = <<>> /\ content \in ForeignContents
  /\ encKey = <<>>
  /\ nonceLog = <<>>
  /\ tampered = FALSE
  /\ res = NoRes
  /\ pull = NoPull
  /\ dotenv = OldEnv
  /\ globals = DefaultGlobals
  /\ files = NoFiles
  /\ ncalls = 0 /\ asked = 0
  /\ config = NoConfig /\ keyring = <<>> /\ run = NoRun
  /\ localVars = NoVars /\ remoteVars = NoVars /\ merge = NoMerge

\* ----------------------------------------------------------------- actions
\* the outcome of an encode call r made under the key result kr
Stored(op, to, r, kr) ==
  IF r.err # ""
    THEN /\ res' = [op |-> op, err |-> r.err, out |-> <<>>,
                    key |-> <<>>, keyAsked |-> TRUE]
         /\ UNCHANGED <<stage, content, encKey, nonceLog>>
    ELSE /\ stage' = to
         /\ content' = r.out
         /\ encKey' = kr.key
         /\ nonceLog' = r.nonces
         /\ UNCHANGED res

EncryptUnder(kr, nonce) ==
  Stored("encrypt", "encrypted", EncryptContent(content, kr, nonce), kr)

\* envi push --encrypt: EncryptContent on the local file
Encrypt(kin, nonce) ==
  /\ stage = "plain" /\ res.op = "none"
  /\ EncryptUnder(getKeyFromPassword(kin, TRUE, FALSE), nonce)
  /\ UNCHANGED <<src, tampered, pull, dotenv>>
  /\ UNCHANGED <<keyVars, cfgVars, mergeVars>>

\* the number of reads of rand.Reader MaskEnvContent makes on this content
Seals(c) == Len(SelectSeq(ScanLines(c), reachesEncryptValue))

MaskUnder(kr, rand) ==
  Stored("mask", "masked", MaskEnvContent(content, kr, rand), kr)

\* the nonces are whatever rand.Reader yields, one per encryptValue call
MaskReading(n) ==
  \E kin \in KeyInputs, rand \in [1..(IF n = 0 THEN 1 ELSE n) -> Nonces] :
    MaskUnder(getKeyFromPassword(kin, FALSE, TRUE), rand)

\* envi push --mask: MaskEnvContent on the local file
Mask ==
  /\ stage = "plain" /\ res.op = "none"
  /\ MaskReading(Seals(content))
  /\ UNCHANGED <<src, tampered, pull, dotenv>>
  /\ UNCHANGED <<keyVars, cfgVars, mergeVars>>

FlipBit(b, j) == IF (b \div (2 ^ j)) % 2 = 1 THEN b - 2 ^ j ELSE b + 2 ^ j

FlipAt(blob, pos, j) == [blob EXCEPT ![pos] = FlipBit(blob[pos], j)]

FlipInBlob(blob) ==
  \E pos \in (NonceSize + 1)..Len(blob), j \in 0..7 :
    content' = EncMarker \o EncodeToString(FlipAt(blob, pos, j))

\* the stored whole-file blob with one bit of its ciphertext-and-tag part
\* flipped (the remote store is outside the program's control)
TamperBlob ==
  /\ stage = "encrypted" /\ res.op = "none" /\ ~tampered
  /\ Len(src) <= MaxTamperLen
  /\ FlipInBlob(DecodeString(TrimPrefix(content, EncMarker)).out)
  /\ tampered' = TRUE
  /\ UNCHANGED <<stage, src, encKey, nonceLog, res, pull, dotenv>>
  /\ UNCHANGED <<keyVars, cfgVars, mergeVars>>

FlippedLine(line, at, blob, pos) ==
  SubSeq(line, 1, at + Len(MaskOpen) - 1)
    \o EncodeToString(FlipAt(blob, pos, 0)) \o <<RBR>>

FlipInValue(lines, n, blob, last) ==
  /\ Len(blob) > NonceSize
  /\ content' =
       Join([lines EXCEPT ![n] =
               FlippedLine(lines[n], Index(lines[n], MaskOpen), blob,
                           IF last THEN Len(blob) ELSE NonceSize + 1)], <<LF>>)

FlipInMatch(lines, n, m, last) ==
  /\ m.matched
  /\ FlipInValue(lines, n, DecodeString(m.group).out, last)

FlipInLines(lines) ==
  \E n \in 1..Len(lines), last \in BOOLEAN :
    FlipInMatch(lines, n, maskedValueRegex(lines[n]), last)

\* one masked value of the stored document with the lowest bit of its first
\* ciphertext byte (last = FALSE) or of its last tag byte (last = TRUE) flipped
TamperMasked ==
  /\ stage = "masked" /\ res.op = "none" /\ ~tampered
  /\ FlipInLines(Split(content))
  /\ tampered' = TRUE
  /\ UNCHANGED <<stage, src, encKey, nonceLog, res, pull, dotenv>>
  /\ UNCHANGED <<keyVars, cfgVars, mergeVars>>

Decoded(op, r, kr) ==
  res' = [op |-> op, err |-> r.err, out |-> r.out,
          key |-> kr.key, keyAsked |-> r.keyAsked]

DecryptUnder(kr) == Decoded("decrypt", DecryptContent(content, kr), kr)

\* DecryptContent on the stored content (a tampered document goes to the
\* decode call of its own format)
Decrypt(kin) ==
  /\ res.op = "none"
  /\ tampered => stage = "encrypted"
  /\ DecryptUnder(getKeyFromPassword(kin, TRUE, FALSE))
  /\ UNCHANGED <<stage, src, content, encKey, nonceLog, tampered, pull, dotenv>>
  /\ UNCHANGED <<keyVars, cfgVars, mergeVars>>

UnmaskUnder(kr) == Decoded("unmask", UnmaskEnvContent(content, kr), kr)

\* UnmaskEnvContent on the stored content (a tampered document goes to the
\* decode call of its own format)
Unmask(kin) ==
  /\ res.op = "none"
  /\ tampered => stage = "masked"
  /\ UnmaskUnder(getKeyFromPassword(kin, FALSE, TRUE))
  /\ UNCHANGED <<stage, src, content, encKey, nonceLog, tampered, pull, dotenv>>
  /\ UNCHANGED <<keyVars, cfgVars, mergeVars>>

\* what the pull reports when .env is written whatever the codec returned
pullDoneWritesOnError(d, r, kr) ==
  [ran |-> TRUE, canceled |-> d.canceled, both |-> d.both,
   isEncrypted |-> d.isEncrypted, isMasked |-> d.isMasked,
   useEncryption |-> d.useEncryption,
   useMaskedEncryption |-> d.useMaskedEncryption,
   transform |-> d.transform, err |-> r.err,
   wrote |-> ~d.canceled, out |-> r.out,
   key |-> kr.key, keyAsked |-> r.keyAsked]

\* what the pull reports: d the detection and flags, r the codec result
pullDone(d, r, kr) ==
  [ran |-> TRUE, canceled |-> d.canceled, both |-> d.both,
   isEncrypted |-> d.isEncrypted, isMasked |-> d.isMasked,
   useEncryption |-> d.useEncryption,
   useMaskedEncryption |-> d.useMaskedEncryption,
   transform |-> d.transform, err |-> r.err,
   wrote |-> ~d.canceled /\ r.err = "", out |-> r.out,
   key |-> kr.key, keyAsked |-> r.keyAsked]

\* the codec call the flags select, then the write of .env
pullTransform(envContent, d, kr) ==
  pullDone(d,
           IF d.transform = "decrypt" THEN DecryptContent(envContent, kr)
           ELSE IF d.transform = "unmask" THEN UnmaskEnvContent(envContent, kr)
           ELSE [err |-> "", out |-> envContent, keyAsked |-> FALSE],
           kr)

\* the prompts: what useEncryption / useMaskedEncryption are once the
\* detected format was put against --decrypt / --unmask and the prompt
\* answered (yes); a plain file pulled with either flag asks to continue
pullFlags(both, enc, msk, isEncrypted, isMasked, decrypt, unmask, yes) ==
  [both |-> both, isEncrypted |-> isEncrypted, isMasked |-> isMasked,
   canceled |-> ~enc /\ ~msk /\ (decrypt \/ unmask) /\ ~yes,
   useEncryption |->
     IF both THEN decrypt
     ELSE IF enc THEN
       IF ~decrypt /\ ~unmask THEN yes
       ELSE IF unmask THEN (yes \/ decrypt)
       ELSE decrypt
     ELSE IF msk THEN
       IF ~decrypt /\ ~unmask THEN FALSE
       ELSE IF decrypt THEN ~yes
       ELSE decrypt
     ELSE FALSE,
   useMaskedEncryption |->
     IF both THEN unmask
     ELSE IF enc THEN
       IF ~decrypt /\ ~unmask THEN FALSE
       ELSE IF unmask THEN ~yes
       ELSE unmask
     ELSE IF msk THEN
       IF ~decrypt /\ ~unmask THEN yes
       ELSE IF decrypt THEN (yes \/ unmask)
       ELSE unmask
     ELSE FALSE]

\* the transform chosen from the flags alone, whatever was detected
pullSelectByFlags(f) ==
  [both |-> f.both, isEncrypted |-> f.isEncrypted, isMasked |-> f.isMasked,
   canceled |-> f.canceled, useEncryption |-> f.useEncryption,
   useMaskedEncryption |-> f.useMaskedEncryption,
   transform |->
     IF f.canceled THEN "none"
     ELSE IF f.useEncryption THEN "decrypt"
     ELSE IF f.useMaskedEncryption THEN "unmask"
     ELSE "none"]

\* the transform the final flags select
pullSelect(f) ==
  [both |-> f.both, isEncrypted |-> f.isEncrypted, isMasked |-> f.isMasked,
   canceled |-> f.canceled, useEncryption |-> f.useEncryption,
   useMaskedEncryption |-> f.useMaskedEncryption,
   transform |->
     IF f.canceled THEN "none"
     ELSE IF f.isEncrypted /\ f.useEncryption THEN "decrypt"
     ELSE IF f.isMasked /\ f.useMaskedEncryption THEN "unmask"
     ELSE "none"]

\* detection with isMasked left set when both markers are found
pullDetectKeepsMasked(enc, msk, decrypt, unmask, yes) ==
  pullSelect(pullFlags(enc /\ msk, enc, msk, enc, msk, decrypt, unmask, yes))

\* detection: both markers found is treated as whole-file encrypted
pullDetect(enc, msk, decrypt, unmask, yes) ==
  pullSelect(pullFlags(enc /\ msk, enc, msk, enc, msk /\ ~enc, decrypt, unmask, yes))

pullKeyed(envContent, d, kin) ==
  pullTransform(envContent, d,
                getKeyFromPassword(kin, d.useEncryption, d.useMaskedEncryption))

\* pullCmd.Run from the fetched gist content on: detection, the prompt the
\* detected format and the flags lead to (answered yes or no), the codec
\* call, and whether .env is written.  decrypt / unmask are the values of
\* --decrypt / --unmask after the configured defaults were applied.
pullCmd(envContent, decrypt, unmask, yes, kin) ==
  pullKeyed(envContent,
            pullDetect(HasPrefix(envContent, EncMarkerNoLF),
                       Contains(envContent, MaskHeader), decrypt, unmask, yes),
            kin)

PullDone(p) ==
  /\ pull' = [impl |-> "root", ran |-> TRUE, canceled |-> p.canceled,
              both |-> p.both, isEncrypted |-> p.isEncrypted, isMasked |-> p.isMasked,
              useEncryption |-> p.useEncryption,
              useMaskedEncryption |-> p.useMaskedEncryption,
              transform |-> p.transform, err |-> p.err,
              wrote |-> p.wrote]
  /\ res' = [op |-> "pull", err |-> p.err,
             out |-> IF p.wrote THEN p.out ELSE <<>>,
             key |-> p.key, keyAsked |-> p.keyAsked]
  /\ dotenv' = IF p.wrote THEN p.out ELSE dotenv

\* envi pull with "An .env file already exists. Overwrite?" answered no:
\* the command ends before anything is fetched
PullDeclined ==
  /\ res.op = "none" /\ ~tampered
  /\ stage = "foreign" \/ Len(src) <= MaxPullLen
  /\ pull' = [NoPull EXCEPT !.canceled = TRUE]
  /\ res' = [NoRes EXCEPT !.op = "pull"]
  /\ UNCHANGED <<stage, src, content, encKey, nonceLog, tampered, dotenv>>
  /\ UNCHANGED <<keyVars, cfgVars, mergeVars>>

\* envi pull with the overwrite confirmed
Pull ==
  /\ res.op = "none" /\ ~tampered
  /\ stage = "foreign" \/ Len(src) <= MaxPullLen
  /\ \E decrypt, unmask, yes \in BOOLEAN, kin \in KeyInputs :
       PullDone(pullCmd(content, decrypt, unmask, yes, kin))
  /\ UNCHANGED <<stage, src, content, encKey, nonceLog, tampered>>
  /\ UNCHANGED <<keyVars, cfgVars, mergeVars>>

encryption_EncryptUnder(kr, nonce) ==
  Stored("encrypt_i", "encrypted_i", encryption_EncryptContent(content, kr, nonce), kr)

\* internal/cmd push --encrypt: encryption.EncryptContent on the local file
EncryptInternal(kin, nonce) ==
  /\ stage = "plain" /\ res.op = "none" /\ Len(src) <= MaxPullLen
  /\ encryption_EncryptUnder(getEncryptionKey(kin), nonce)
  /\ UNCHANGED <<src, tampered, pull, dotenv>>
  /\ UNCHANGED <<keyVars, cfgVars, mergeVars>>

encryption_Seals(c) == Len(SelectSeq(Split(c), encryption_sealsValue))

encryption_MaskUnder(kr, rand) ==
  Stored("mask_i", "masked_i", encryption_MaskEnvContent(content, kr, rand), kr)

encryption_MaskReading(n) ==
  \E kin \in KeyInputs, rand \in [1..(IF n = 0 THEN 1 ELSE n) -> Nonces] :
    encryption_MaskUnder(getEncryptionKey(kin), rand)

\* internal/cmd push --mask: encryption.MaskEnvContent on the local file
MaskInternal ==
  /\ stage = "plain" /\ res.op = "none" /\ Len(src) <= MaxPullLen
  /\ encryption_MaskReading(encryption_Seals(content))
  /\ UNCHANGED <<src, tampered, pull, dotenv>>
  /\ UNCHANGED <<keyVars, cfgVars, mergeVars>>

\* what runPullCommand reports: r the codec result, overwrite the answer to
\* "The file ... already exists. Overwrite?", asked after the codec call
runPullDone(enc, msk, transform, r, kr, overwrite) ==
  [impl |-> "internal", ran |-> TRUE, canceled |-> r.err = "" /\ ~overwrite,
   both |-> enc /\ msk, isEncrypted |-> enc, isMasked |-> msk,
   useEncryption |-> FALSE, useMaskedEncryption |-> FALSE,
   transform |-> transform, err |-> r.err,
   wrote |-> r.err = "" /\ overwrite, out |-> r.out,
   key |-> kr.key, keyAsked |-> r.keyAsked]

\* the codec call: DecryptContent when IsEncrypted, else UnmaskEnvContent
runPullTransform(envContent, enc, msk, transform, kr, overwrite) ==
  runPullDone(enc, msk, transform,
              IF transform = "decrypt" THEN encryption_DecryptContent(envContent, kr)
              ELSE IF transform = "unmask" THEN encryption_UnmaskEnvContent(envContent, kr)
              ELSE [err |-> "", out |-> envContent, keyAsked |-> FALSE],
              kr, overwrite)

runPullDetected(envContent, enc, msk, pullUnmask, kin, overwrite) ==
  runPullTransform(envContent, enc, msk,
                   IF ~((enc \/ msk) /\ pullUnmask) THEN "none"
                   ELSE IF enc THEN "decrypt" ELSE "unmask",
                   getEncryptionKey(kin), overwrite)

\* runPullCommand from the fetched gist content on
runPullCommand(envContent, pullUnmask, kin, overwrite) ==
  runPullDetected(envContent, encryption_IsEncrypted(envContent),
                  encryption_IsMasked(envContent), pullUnmask, kin, overwrite)

RunPullDone(p) ==
  /\ pull' = [impl |-> "internal", ran |-> TRUE, canceled |-> p.canceled,
              both |-> p.both, isEncrypted |-> p.isEncrypted, isMasked |-> p.isMasked,
              useEncryption |-> FALSE, useMaskedEncryption |-> FALSE,
              transform |-> p.transform, err |-> p.err, wrote |-> p.wrote]
  /\ res' = [op |-> "pull_i", err |-> p.err,
             out |-> IF p.wrote THEN p.out ELSE <<>>,
             key |-> p.key, keyAsked |-> p.keyAsked]
  /\ dotenv' = IF p.wrote THEN p.out ELSE dotenv

\* internal/cmd pull (runPullCommand)
PullInternal ==
  /\ res.op = "none" /\ ~tampered
  /\ stage = "foreign" \/ Len(src) <= MaxPullLen
  /\ \E pullUnmask, overwrite \in BOOLEAN, kin \in KeyInputs :
       RunPullDone(runPullCommand(content, pullUnmask, kin, overwrite))
  /\ UNCHANGED <<stage, src, content, encKey, nonceLog, tampered>>
  /\ UNCHANGED <<keyVars, cfgVars, mergeVars>>

Next ==
  \/ PullDeclined
  \/ Pull
  \/ PullInternal
  \/ \E kin \in KeyInputs, nonce \in Nonces : Encrypt(kin, nonce)
  \/ \E kin \in KeyInputs, nonce \in Nonces : EncryptInternal(kin, nonce)
  \/ Mask
  \/ MaskInternal
  \/ TamperBlob
  \/ TamperMasked
  \/ \E kin \in KeyInputs : Decrypt(kin)
  \/ \E kin \in KeyInputs : Unmask(kin)

Spec == Init /\ [][Next]_vars

\* ------------------------------------------- one process, keys from anywhere
\* the documents the process works on: "A=v" and the empty document
KeyDocs == { <<65, 61, 118>>, <<>> }

\* key files: 32 raw bytes, the base64 text of 32 bytes, a 10-byte secret
\* ("secret-123"), and 32 raw bytes followed by a newline
Raw32 == [i \in 1..KeyLength |-> 100 + i]

B64Of32 == EncodeToString(Raw32)

Secret10 == <<115, 101, 99, 114, 101, 116, 45, 49, 50, 51>>

Raw32NL == Raw32 \o <<LF>>

KeyFileContents == {Raw32, B64Of32, Secret10, Raw32NL}

\* the key rand.Reader yields to generateAndSaveKey
NewKey == [i \in 1..KeyLength |-> 200 + (i % 2)]

\* what is typed at the password prompts
TypedInputs ==
  { [typed |-> pwB, confirm |-> pwB], [typed |-> pwShort, confirm |-> pwShort] }

\* the flag settings a process starts with: a key file (default path or a
\* path under "~/", with or without --generate-key), or a password
KeyGlobals ==
  { [DefaultGlobals EXCEPT !.useKeyFile = TRUE, !.useEncryption = TRUE,
                           !.encryptionKeyFile = p, !.autoGenKey = a] :
      p \in {DefaultKeyFile, TildeKeyFile}, a \in BOOLEAN }
  \cup
  { [DefaultGlobals EXCEPT !.encryptionPassword = pw, !.useEncryption = f[1],
                           !.useMaskedEncryption = f[2]] :
      pw \in {<<>>, pwA, pwShort},
      f \in {<<TRUE, FALSE>>, <<FALSE, TRUE>>, <<FALSE, FALSE>>} }

\* the disk: no key file, or one at the place the key-file path leads to
KeyDisks(g) ==
  {NoFiles} \cup
  (IF g.useKeyFile
     THEN { [NoFiles EXCEPT ![ExpandHome(g.encryptionKeyFile)] =
               [exists |-> TRUE, data |-> d]] : d \in KeyFileContents }
     ELSE {})

\* content the process did not make: a marker line in front of the base64
\* text "QUFB", a marker line in front of "!", and a lone masking header
KeyForeign == { EncMarker \o <<81, 85, 70, 66>>, EncMarker \o <<33>>, MaskHeader }

KeyInit ==
  /\ \/ stage = "plain" /\ src \in KeyDocs /\ content = src
     \/ stage = "foreign" /\ src = <<>> /\ content \in KeyForeign
  /\ encKey = <<>>
  /\ nonceLog = <<>>
  /\ tampered = FALSE
  /\ res = NoRes
  /\ pull = NoPull
  /\ dotenv = OldEnv
  /\ globals \in KeyGlobals
  /\ files \in KeyDisks(globals)
  /\ ncalls = 0 /\ asked = 0
  /\ config = NoConfig /\ keyring = <<>> /\ run = NoRun
  /\ localVars = NoVars /\ remoteVars = NoVars /\ merge = NoMerge

\* the calls of the root package and those of package internal/encryption
\* belong to different programs
RootOps == {"none", "encrypt", "mask", "decrypt", "unmask"}

InternalOps == {"none", "encrypt_i", "decrypt_i"}

\* an encode call r made with the acquired key kr: the content, the result,
\* and what the acquisition did to encryptionKeyFile and to the disk
KeyStored(op, to, r, kr) ==
  /\ IF r.err # ""
       THEN UNCHANGED <<stage, content, encKey, nonceLog>>
       ELSE /\ stage' = to
            /\ content' = r.out
            /\ encKey' = kr.key
            /\ nonceLog' = r.nonces
  /\ res' = [op |-> op, err |-> IF kr.err # "" THEN kr.err ELSE r.err,
             out |-> <<>>, key |-> kr.key, keyAsked |-> TRUE]
  /\ globals' = [globals EXCEPT !.encryptionKeyFile = kr.keyFile]
  /\ files' = kr.files
  /\ ncalls' = ncalls + 1
  /\ asked' = kr.prompts

RootEncryptWith(kr, nonce) ==
  KeyStored("encrypt", "encrypted", EncryptContent(content, kr, nonce), kr)

\* EncryptContent in the process
RootEncryptCall(typed, nonce) ==
  /\ ncalls < MaxCalls /\ stage = "plain" /\ res.op \in RootOps
  /\ RootEncryptWith(encodeKey(globals, files, typed, NewKey), nonce)
  /\ UNCHANGED <<src, tampered, pull, dotenv>>
  /\ UNCHANGED <<cfgVars, mergeVars>>

RootMaskWith(kr, rand) ==
  KeyStored("mask", "masked", MaskEnvContent(content, kr, rand), kr)

\* MaskEnvContent in the process
RootMaskCall(typed, nonce) ==
  /\ ncalls < MaxCalls /\ stage = "plain" /\ res.op \in RootOps
  /\ RootMaskWith(encodeKey(globals, files, typed, NewKey), [n \in {1} |-> nonce])
  /\ UNCHANGED <<src, tampered, pull, dotenv>>
  /\ UNCHANGED <<cfgVars, mergeVars>>

\* a decode call r: the key is acquired only when the call got that far
KeyDecoded(op, r, kr) ==
  /\ res' = [op |-> op,
             err |-> IF r.err = "key" THEN kr.err ELSE r.err,
             out |-> r.out,
             key |-> IF r.keyAsked THEN kr.key ELSE <<>>,
             keyAsked |-> r.keyAsked]
  /\ globals' = IF r.keyAsked
                  THEN [globals EXCEPT !.encryptionKeyFile = kr.keyFile]
                  ELSE globals
  /\ ncalls' = ncalls + 1
  /\ asked' = IF r.keyAsked THEN kr.prompts ELSE 0

RootDecryptWith(kr) == KeyDecoded("decrypt", DecryptContent(content, kr), kr)

\* DecryptContent in the process
RootDecryptCall(typed) ==
  /\ ncalls < MaxCalls /\ res.op \in RootOps
  /\ RootDecryptWith(decodeKey(globals, files, typed))
  /\ UNCHANGED <<stage, src, content, encKey, nonceLog, tampered, pull, dotenv, files>>
  /\ UNCHANGED <<cfgVars, mergeVars>>

RootUnmaskWith(kr) == KeyDecoded("unmask", UnmaskEnvContent(content, kr), kr)

\* UnmaskEnvContent in the process
RootUnmaskCall(typed) ==
  /\ ncalls < MaxCalls /\ res.op \in RootOps
  /\ RootUnmaskWith(decodeKey(globals, files, typed))
  /\ UNCHANGED <<stage, src, content, encKey, nonceLog, tampered, pull, dotenv, files>>
  /\ UNCHANGED <<cfgVars, mergeVars>>

\* a call of package internal/encryption: its key acquisition writes
\* neither a variable nor a file
InternalStored(r, kr) ==
  /\ IF r.err # ""
       THEN UNCHANGED <<stage, content, encKey, nonceLog>>
       ELSE /\ stage' = "encrypted_i"
            /\ content' = r.out
            /\ encKey' = kr.key
            /\ nonceLog' = r.nonces
  /\ res' = [op |-> "encrypt_i", err |-> IF kr.err # "" THEN kr.err ELSE r.err,
             out |-> <<>>, key |-> kr.key, keyAsked |-> TRUE]
  /\ ncalls' = ncalls + 1
  /\ asked' = kr.prompts

InternalEncryptWith(kr, nonce) ==
  InternalStored(encryption_EncryptContent(content, kr, nonce), kr)

\* encryption.EncryptContent in the process
InternalEncryptCall(typed, nonce) ==
  /\ ncalls < MaxCalls /\ stage = "plain" /\ res.op \in InternalOps
  /\ InternalEncryptWith(encryption_getEncryptionKeyOf(globals, files, typed), nonce)
  /\ UNCHANGED <<src, tampered, pull, dotenv, globals, files>>
  /\ UNCHANGED <<cfgVars, mergeVars>>

InternalDecoded(r, kr) ==
  /\ res' = [op |-> "decrypt_i",
             err |-> IF r.err = "key" THEN kr.err ELSE r.err,
             out |-> r.out,
             key |-> IF r.keyAsked THEN kr.key ELSE <<>>,
             keyAsked |-> r.keyAsked]
  /\ ncalls' = ncalls + 1
  /\ asked' = IF r.keyAsked THEN kr.prompts ELSE 0

InternalDecryptWith(kr) == InternalDecoded(encryption_DecryptContent(content, kr), kr)

\* encryption.DecryptContent in the process
InternalDecryptCall(typed) ==
  /\ ncalls < MaxCalls /\ res.op \in InternalOps
  /\ InternalDecryptWith(encryption_getEncryptionKeyOf(globals, files, typed))
  /\ UNCHANGED <<stage, src, content, encKey, nonceLog, tampered, pull, dotenv,
                 globals, files>>
  /\ UNCHANGED <<cfgVars, mergeVars>>

KeyNext ==
  \/ \E typed \in TypedInputs, nonce \in Nonces : RootEncryptCall(typed, nonce)
  \/ \E typed \in TypedInputs, nonce \in Nonces : RootMaskCall(typed, nonce)
  \/ \E typed \in TypedInputs : RootDecryptCall(typed)
  \/ \E typed \in TypedInputs : RootUnmaskCall(typed)
  \/ \E typed \in TypedInputs, nonce \in Nonces : InternalEncryptCall(typed, nonce)
  \/ \E typed \in TypedInputs : InternalDecryptCall(typed)

KeySpec == KeyInit /\ [][KeyNext]_vars

\* ---------------------------------------------- envi config, run after run
ConfigDone(s, f) ==
  /\ config' = s.config
  /\ keyring' = s.keyring
  /\ run' = [ran |-> TRUE, token |-> f.token, forceFileStorage |-> f.forceFileStorage,
             clearToken |-> f.clearToken, encryptByDefault |-> f.encryptByDefault,
             maskByDefault |-> f.maskByDefault,
             disableEncryption |-> f.disableEncryption,
             returned |-> s.returned, deleteErr |-> s.deleteErr]

ConfigRun(f, env) == ConfigDone(configCmd(config, keyring, f, env), f)

\* one invocation of `envi config`
Config ==
  /\ \E f \in ConfigFlags, env \in ConfigEnvs : ConfigRun(f, env)
  /\ UNCHANGED <<codecVars, keyVars, mergeVars>>

\* no configuration file and no keyring entry
ConfigInit ==
  /\ stage = "plain" /\ src = <<>> /\ content = <<>>
  /\ encKey = <<>> /\ nonceLog = <<>> /\ tampered = FALSE
  /\ res = NoRes /\ pull = NoPull /\ dotenv = OldEnv
  /\ globals = DefaultGlobals /\ files = NoFiles /\ ncalls = 0 /\ asked = 0
  /\ config = NoConfig /\ keyring = <<>> /\ run = NoRun
  /\ localVars = NoVars /\ remoteVars = NoVars /\ merge = NoMerge

ConfigNext == Config

ConfigSpec == ConfigInit /\ [][ConfigNext]_vars

\* ------------------------------------------------------------- envi merge
\* one invocation of `envi merge` on a local and a remote file
Merge ==
  /\ ~merge.ran
  /\ \E f \in MergeFlags, choices \in MergeChoices :
       merge' = mergeCmd(localVars, remoteVars, f, choices)
  /\ UNCHANGED <<localVars, remoteVars, codecVars, keyVars, cfgVars>>

MergeInit ==
  /\ stage = "plain" /\ src = <<>> /\ content = <<>>
  /\ encKey = <<>> /\ nonceLog = <<>> /\ tampered = FALSE
  /\ res = NoRes /\ pull = NoPull /\ dotenv = OldEnv
  /\ globals = DefaultGlobals /\ files = NoFiles /\ ncalls = 0 /\ asked = 0
  /\ config = NoConfig /\ keyring = <<>> /\ run = NoRun
  /\ localVars \in VarMaps /\ remoteVars \in VarMaps /\ merge = NoMerge

MergeNext == Merge

MergeSpec == MergeInit /\ [][MergeNext]_vars

\* ------------------------------------------------------------------ claims
\* C1: a document masked and then unmasked under the same key comes back
\* byte for byte, whatever its lines and with or without a trailing newline.
C1_MaskRoundTrip ==
  (stage = "masked" /\ ~tampered /\ res.op = "unmask" /\ res.key = encKey)
    => (res.err = "" /\ res.out = src)

\* C2: DecryptContent under K of EncryptContent under K of any content,
\* the empty content included, succeeds and returns that content.
C2_FileRoundTrip ==
  (stage = "encrypted" /\ ~tampered /\ res.op = "decrypt" /\ res.key = encKey)
    => (res.err = "" /\ res.out = src)

C2_Witness ==
  /\ stage = "encrypted" /\ ~tampered /\ res.op = "decrypt" /\ res.key = encKey
  /\ src = <<>> /\ res.err = "" /\ res.out = <<>>

\* the lines of the masked document and of the plaintext it was made from
outLines == Split(content)

inLines == ScanLines(src)

\* the decode call that fits what the content is
DecodeOp == IF stage = "encrypted" THEN "decrypt" ELSE "unmask"

\* C3: when a line of the document handed to UnmaskEnvContent matches the
\* masked-value pattern and does not decode or decrypt under the key in
\* use, the call returns an error and no output at all.
C3_UnmaskAllOrNothing ==
  (/\ res.op = "unmask" /\ res.keyAsked /\ res.key # <<>>
   /\ LET ls == ScanLines(content)
      IN \E i \in 1..Len(ls) :
           LET m == maskedValueRegex(ls[i])
           IN m.matched /\ decryptValue(m.group, res.key).err # "")
    => (res.err # "" /\ res.out = <<>>)

\* two values were masked, the first still decrypts, the second was tampered
C3_Witness ==
  /\ stage = "masked" /\ tampered /\ res.op = "unmask" /\ res.key = encKey
  /\ Len(outLines) = 3
  /\ decryptValue(maskedValueRegex(outLines[2]).group, res.key).err = ""
  /\ decryptValue(maskedValueRegex(outLines[3]).group, res.key).err = "auth"
  /\ res.err = "auth" /\ res.out = <<>>

C5_TamperDetected ==
  /\ (stage = "encrypted" /\ tampered /\ res.op = "decrypt" /\ res.key = encKey)
       => (res.err = "auth" /\ res.out = <<>>)
  /\ (stage = "masked" /\ tampered /\ res.op = "unmask" /\ res.key = encKey)
       => (res.err # "" /\ res.out = <<>>)
  /\ (stage = "encrypted" /\ res.op = "decrypt" /\ res.key = encKey /\ res.err = "")
       => res.out = src

C5_Witness ==
  /\ stage = "encrypted" /\ tampered /\ res.op = "decrypt" /\ res.key = encKey
  /\ Len(src) > 0 /\ res.err = "auth" /\ res.out = <<>>

OccursAt(s, marker, i) ==
  /\ i + Len(marker) - 1 <= Len(s)
  /\ \A k \in 1..Len(marker) : s[i + k - 1] = marker[k]

C7_ClassificationOrder ==
  /\ (pull.ran /\ pull.impl = "root") =>
       /\ pull.isEncrypted <=> OccursAt(content, EncMarkerNoLF, 1)
       /\ pull.isMasked <=> (/\ ~OccursAt(content, EncMarkerNoLF, 1)
                             /\ \E i \in 1..Len(content) : OccursAt(content, MaskHeader, i))
       /\ pull.both => (pull.isEncrypted /\ ~pull.isMasked /\ pull.transform # "unmask")
  /\ (pull.ran /\ pull.impl = "internal") =>
       /\ pull.isEncrypted <=> OccursAt(content, EncryptionPrefix, 1)
       /\ pull.transform = "decrypt" => pull.isEncrypted
       /\ pull.transform = "unmask" =>
            (/\ ~pull.isEncrypted
             /\ \E i \in 1..Len(content) : OccursAt(content, MaskedPrefix, i))
       /\ pull.both => pull.transform # "unmask"

\* both markers, --unmask given: the content is not unmasked
C7_Witness ==
  /\ pull.ran /\ pull.impl = "root" /\ pull.both /\ pull.useMaskedEncryption /\ ~pull.useEncryption
  /\ pull.isEncrypted /\ ~pull.isMasked /\ pull.transform = "none" /\ pull.wrote

\* an assignment line: not blank, not a comment, with an '='
IsAssignment(line) ==
  /\ TrimSpace(line) # <<>>
  /\ TrimSpace(line)[1] # HASH
  /\ \E k \in 1..Len(line) : line[k] = EQ

FirstEq(line) == CHOOSE k \in 1..Len(line) : line[k] = EQ /\ \A j \in 1..(k - 1) : line[j] # EQ

ValuePart(line) == SubSeq(line, FirstEq(line) + 1, Len(line))

\* the line is KEY=ENVI_MASKED[...] with the key part of `line`
IsMaskedFormOf(out, line) ==
  /\ OccursAt(out, SubSeq(line, 1, FirstEq(line) - 1) \o MaskOpen, 1)
  /\ out[Len(out)] = RBR

\* C8: every assignment line with a non-empty value part, whitespace-only
\* values included, has its value replaced by ENVI_MASKED[<base64>].
C8_NonEmptyValuesMasked ==
  (stage = "masked" /\ ~tampered) =>
    \A i \in 1..Len(inLines) :
      (IsAssignment(inLines[i]) /\ ValuePart(inLines[i]) # <<>>)
        => IsMaskedFormOf(outLines[i + 1], inLines[i])

\* C9: an assignment line with an empty value is emitted unchanged, without
\* the ENVI_MASKED[ wrapper, and no nonce is drawn for it.
C9_EmptyValuePassthrough ==
  (stage = "masked" /\ ~tampered) =>
    LET ins == inLines
        outs == outLines
    IN /\ \A i \in 1..Len(ins) :
            (IsAssignment(ins[i]) /\ ValuePart(ins[i]) = <<>>)
              => (outs[i + 1] = ins[i] /\ ~Contains(outs[i + 1], MaskOpen))
       /\ Len(nonceLog) <=
            Cardinality({i \in 1..Len(ins) :
                           IsAssignment(ins[i]) /\ ValuePart(ins[i]) # <<>>})

\* "A=" next to a masked value: one nonce drawn, the empty value untouched
C9_Witness ==
  /\ stage = "masked" /\ ~tampered /\ Len(inLines) = 2
  /\ inLines[1] = <<65, 61>> /\ outLines[2] = <<65, 61>>
  /\ inLines[2] = <<65, 61, 118>>
  /\ IsMaskedFormOf(outLines[3], inLines[2]) /\ Len(nonceLog) = 1

\* C10: blank lines, comment lines and lines without '=' are emitted as
\* they are, the lines keep their order behind the one added marker line,
\* and an assignment line differs from its input at most after its first '='.
C10_MaskFrame ==
  (stage = "masked" /\ ~tampered) =>
    LET ins == inLines
        outs == outLines
    IN /\ Len(outs) = Len(ins) + 1
       /\ outs[1] = MaskHeader
       /\ \A i \in 1..Len(ins) :
            IF IsAssignment(ins[i])
              THEN OccursAt(outs[i + 1], SubSeq(ins[i], 1, FirstEq(ins[i])), 1)
              ELSE outs[i + 1] = ins[i]

\* a comment with an '=' and a blank line of one space, both passed through
C10_Witness ==
  /\ stage = "masked" /\ ~tampered
  /\ inLines = << <<32, 35, 61>>, <<32>> >>
  /\ outLines = << MaskHeader, <<32, 35, 61>>, <<32>> >>

\* the value of line i of the plaintext is sealed by MaskEnvContent
IsSealedLine(line) == IsAssignment(line) /\ TrimSpace(ValuePart(line)) # <<>>

\* C11: a masked assignment is split at its first '=': the masked line
\* starts with the key part and that '=' in plaintext, the sealed plaintext
\* is everything behind the first '=' (further '=' included), and unmasking
\* the line under the same key gives the input line back.
C11_SplitAtFirstEq ==
  (stage = "masked" /\ ~tampered) =>
    LET ins == inLines
        outs == outLines
    IN \A i \in 1..Len(ins) :
         IsSealedLine(ins[i]) =>
           LET m == maskedValueRegex(outs[i + 1])
           IN /\ IsMaskedFormOf(outs[i + 1], ins[i])
              /\ m.matched
              /\ decryptValue(m.group, encKey)
                   = [err |-> "", out |-> ValuePart(ins[i])]
              /\ unmaskLines(<<outs[i + 1]>>, encKey)
                   = [err |-> "", lines |-> <<ins[i]>>]

\* "B=x=y" masked and unmasked: the value x=y came back behind the key B
C11_Witness ==
  /\ stage = "masked" /\ ~tampered /\ src = <<66, 61, 120, 61, 121>>
  /\ IsMaskedFormOf(outLines[2], src)
  /\ res.op = "unmask" /\ res.key = encKey /\ res.err = "" /\ res.out = src

\* the number of lines of ls that are the marker line
MarkerLines(ls) == Cardinality({i \in 1..Len(ls) : ls[i] = MaskHeader})

\* C12: the output of MaskEnvContent begins with the marker line, has one
\* line more than the input has, and holds one marker line more than the
\* input held, whatever the input is.
C12_OneMarkerLine ==
  (stage = "masked" /\ ~tampered) =>
    /\ HasPrefix(content, MaskHeader)
    /\ Len(content) > Len(MaskHeader) => content[Len(MaskHeader) + 1] = LF
    /\ LET ins == inLines
           outs == outLines
       IN /\ Len(outs) = Len(ins) + 1
          /\ MarkerLines(outs) = MarkerLines(ins) + 1

\* a document that already holds the marker text as its second line
C12_Witness ==
  /\ stage = "masked" /\ ~tampered
  /\ Len(inLines) = 3 /\ inLines[2] = MaskHeader
  /\ Len(outLines) = 4 /\ outLines[1] = MaskHeader /\ outLines[3] = MaskHeader
  /\ MarkerLines(outLines) = 2

\* an assignment line of the form KEY=ENVI_MASKED[...]
IsMaskedAssignment(line) ==
  /\ IsAssignment(line)
  /\ OccursAt(line, MaskOpen, FirstEq(line))
  /\ line[Len(line)] = RBR

\* the lines of a masked document behind its marker line
BehindMarker == Tail(ScanLines(content))

\* C13: a successful UnmaskEnvContent on a masked document removes its first
\* line, the marker, and returns every other line that is not of the form
\* KEY=ENVI_MASKED[...] unchanged and in place, a later line equal to the
\* marker included.
C13_UnmaskFrame ==
  (stage = "masked" /\ ~tampered /\ res.op = "unmask" /\ res.err = "") =>
    IF BehindMarker = <<>> THEN res.out = <<>>
    ELSE /\ Len(Split(res.out)) = Len(BehindMarker)
         /\ \A i \in 1..Len(BehindMarker) :
              ~IsMaskedAssignment(BehindMarker[i])
                => (i <= Len(Split(res.out)) /\ Split(res.out)[i] = BehindMarker[i])

\* the key the three accepted forms of a key file stand for
ExpectedFileKey(d) == IF d \in {Raw32, B64Of32} THEN Raw32 ELSE Sum256(d)

\* the key file the last call read
KeyFileRead ==
  FileAt(files, IF res.op \in InternalOps THEN globals.encryptionKeyFile
                ELSE ExpandHome(globals.encryptionKeyFile))

\* C14: a call that takes its key from a key file holding 32 raw bytes, the
\* base64 text of 32 bytes or a 10-byte secret gets the 32-byte key of that
\* form and no key error, in the root package and in internal/encryption.
C14_KeyFileForms ==
  (/\ res.op # "none" /\ res.keyAsked /\ globals.useKeyFile
   /\ KeyFileRead.exists /\ KeyFileRead.data \in {Raw32, B64Of32, Secret10})
    => /\ res.key = ExpectedFileKey(KeyFileRead.data)
       /\ Len(res.key) = KeyLength

\* C15: no call gets a key out of a password shorter than 8 characters: a
\* call that takes such a password from the flag fails with the
\* short-password error, and the key of such a password, typed or given by
\* flag, is never used.
C15_ShortPasswordRejected ==
  /\ (/\ res.op # "none" /\ res.keyAsked /\ ~globals.useKeyFile
      /\ globals.encryptionPassword # <<>>
      /\ Len(globals.encryptionPassword) < MinPasswordLen)
       => (res.err = "password_too_short" /\ res.key = <<>>)
  /\ res.key # Sum256(pwShort)
  /\ encKey # Sum256(pwShort)

\* s is padded base64 text: a multiple of four alphabet characters once CR
\* and LF are taken out, '=' only as the last or the last two characters
IsBase64Text(s) ==
  LET t == StripNewlines(s)
  IN /\ Len(t) % 4 = 0
     /\ \A i \in 1..Len(t) :
          \/ B64Val(t[i]) >= 0
          \/ t[i] = EQ /\ i = Len(t)
          \/ t[i] = EQ /\ i = Len(t) - 1 /\ t[Len(t)] = EQ

\* C16: DecryptContent on content that does not begin with the whole-file
\* marker returns the not-encrypted error and nothing else; on content that
\* begins with it and goes on with text that is not base64 it returns the
\* invalid-encoding error and nothing else.
C16_DecryptStructuralErrors ==
  res.op = "decrypt" =>
    /\ ~OccursAt(content, EncMarker, 1)
         => (res.err = "not_encrypted" /\ res.out = <<>>)
    /\ (/\ OccursAt(content, EncMarker, 1)
        /\ ~IsBase64Text(SubSeq(content, Len(EncMarker) + 1, Len(content))))
         => (res.err = "decode" /\ res.out = <<>>)

\* the marker followed by "!!!!"
C16_Witness ==
  /\ res.op = "decrypt"
  /\ content = EncMarker \o <<33, 33, 33, 33>>
  /\ res.err = "decode" /\ res.out = <<>>

\* the bytes the text behind the whole-file marker decodes to
DecodedBlob == DecodeString(SubSeq(content, Len(EncMarker) + 1, Len(content)))

\* the line carries the masked-value pattern and is not the marker line
IsMaskedValueLine(line) ==
  maskedValueRegex(line).matched /\ TrimSpace(line) # MaskHeader

\* the bracketed text of the line decodes to fewer bytes than a nonce
IsShortValueLine(line) ==
  /\ IsMaskedValueLine(line)
  /\ LET blob == DecodeString(maskedValueRegex(line).group)
     IN blob.ok /\ Len(blob.out) < NonceSize

\* the masked value of the line opens under the key
OpensUnder(line, key) == decryptValue(maskedValueRegex(line).group, key).err = ""

\* line i is a short masked value and every masked value before it opens
FirstFailureIsShort(ls, key) ==
  \E i \in 1..Len(ls) :
    /\ IsShortValueLine(ls[i])
    /\ \A j \in 1..(i - 1) : IsMaskedValueLine(ls[j]) => OpensUnder(ls[j], key)

\* C17: with a key at hand, a decoded blob shorter than a nonce makes
\* DecryptContent and decryptValue fail with the too-short error, a blob of
\* at least a nonce that does not open fails with the authentication error,
\* and a decryption that fails returns no bytes.
C17_ShortBlobAndNoPartialOutput ==
  /\ (res.op = "decrypt" /\ res.key # <<>> /\ OccursAt(content, EncMarker, 1))
       => LET blob == DecodedBlob
          IN blob.ok
               => /\ Len(blob.out) < NonceSize => res.err = "too_short"
                  /\ (Len(blob.out) >= NonceSize /\ res.err # "") => res.err = "auth"
  /\ (res.op = "unmask" /\ res.key # <<>> /\ res.keyAsked)
       => (res.err = "too_short" <=> FirstFailureIsShort(ScanLines(content), res.key))
  /\ (res.op \in {"decrypt", "unmask"} /\ res.err # "") => res.out = <<>>

\* the marker followed by base64 text of three bytes
C17_Witness ==
  /\ res.op = "decrypt" /\ res.key # <<>>
  /\ content = EncMarker \o <<81, 85, 74, 68>>
  /\ Len(DecodedBlob.out) = 3
  /\ res.err = "too_short" /\ res.out = <<>>

SealedUpTo(ins, i) == Cardinality({j \in 1..i : IsSealedLine(ins[j])})

\* the nonce in front of the blob of masked line i
NonceOfLine(outs, i) ==
  SubSeq(DecodeString(maskedValueRegex(outs[i + 1]).group).out, 1, NonceSize)

C19_DestinationUntouchedOnFailure ==
  res.op \in {"pull", "pull_i"} =>
    /\ pull.err # "" => (~pull.wrote /\ dotenv = OldEnv)
    /\ dotenv # OldEnv => (pull.wrote /\ pull.err = "")
    /\ (pull.wrote /\ pull.transform \in {"decrypt", "unmask"})
         => (res.err = "" /\ dotenv = res.out)

\* an encrypted file pulled with --decrypt and another password
C19_Witness ==
  /\ res.op = "pull" /\ stage = "encrypted" /\ pull.transform = "decrypt"
  /\ res.key # <<>> /\ res.key # encKey
  /\ pull.err = "auth" /\ ~pull.wrote /\ dotenv = OldEnv

\* C20: no encrypt, decrypt, mask or unmask call changes a key-acquisition
\* or mode parameter (key-file path, key-source choice, password, encrypt and
\* mask flags): the globals after a call are the globals before it.
C20_GlobalsUntouched ==
  [][globals' = globals]_vars

\* C21: a codec operation that returned without error acquired its key, a
\* whole-file encryption read one nonce and sealed once, and a masking
\* operation sealed exactly once per assignment line with a non-empty value
\* (one nonce is read per seal) and never for any other line.
C21_CallCounts ==
  /\ (res.op \in {"decrypt", "unmask"} /\ res.err = "") => res.keyAsked
  /\ (stage = "encrypted" /\ ~tampered) => Len(nonceLog) = 1
  /\ (stage = "masked" /\ ~tampered) =>
       Len(nonceLog) =
         Cardinality({i \in 1..Len(inLines) :
                        IsAssignment(inLines[i]) /\ ValuePart(inLines[i]) # <<>>})

\* no file at the place the key-file path of the process leads to
KeyFileMissing ==
  /\ globals.useKeyFile
  /\ ~FileAt(files, ExpandHome(globals.encryptionKeyFile)).exists

\* C22: with no file at the key-file path, getKeyFromFile of either package
\* returns its not-found / cannot-read error and no key, and a decrypt or
\* unmask call that got as far as the key fails with the key-file error,
\* holding no key and returning no bytes.
C22_MissingKeyFile ==
  KeyFileMissing =>
    /\ getKeyFromFile(globals, files).err = "key_file_not_found"
    /\ getKeyFromFile(globals, files).key = <<>>
    /\ encryption_getKeyFromFile(FileAt(files, globals.encryptionKeyFile)).err
         = "key_file_read"
    /\ encryption_getKeyFromFile(FileAt(files, globals.encryptionKeyFile)).key = <<>>
    /\ (res.op \in {"decrypt", "unmask", "decrypt_i"} /\ res.keyAsked) =>
         (/\ res.err \in {"key_file", "key_file_read"}
          /\ res.key = <<>> /\ res.out = <<>>)

\* an encrypted document decrypted in a process whose key file is not there
C22_Witness ==
  /\ KeyFileMissing /\ res.op = "decrypt" /\ res.keyAsked
  /\ res.err = "key_file" /\ res.key = <<>>

\* C23: after an `envi config --clear-token` that ran to its end the token is
\* stored nowhere: the config file holds no token, TokenInKeyring is false
\* and the keyring holds no entry, also when the keyring deletion reported
\* an error.
C23_TokenStoredNowhere ==
  (run.ran /\ run.clearToken /\ ~run.returned) =>
    (/\ config.GitHubToken = <<>>
     /\ ~config.TokenInKeyring
     /\ keyring = <<>>)

\* C30: the saved configuration never has UseMaskedEncryption set while
\* EncryptByDefault is unset, and after every invocation that was given
\* --disable-encryption and ran through the settings both are unset.
C30_EncryptionFlags ==
  /\ config.UseMaskedEncryption => config.EncryptByDefault
  /\ (run.ran /\ run.disableEncryption /\ ~run.returned) =>
       (~config.EncryptByDefault /\ ~config.UseMaskedEncryption)

\* masking was the saved default and an invocation with --disable-encryption
\* switched it off
C30_Witness ==
  /\ run.ran /\ run.disableEncryption /\ run.maskByDefault /\ ~run.encryptByDefault
  /\ run.token = <<>> /\ ~run.clearToken
  /\ ~config.EncryptByDefault /\ ~config.UseMaskedEncryption

\* C24: the merged variables are exactly the union of the local and the
\* remote keys; a key of one side only keeps that side's value, a key with
\* equal values keeps it, a key whose values differ takes the local value
\* under --local and the remote value under --remote; with both flags the
\* command is rejected and nothing is read, merged or written.
C24_MergeResult ==
  /\ (merge.ran /\ ~merge.rejected) =>
       /\ merge.wrote
       /\ DOMAIN merge.mergedVars = DOMAIN localVars \cup DOMAIN remoteVars
       /\ \A k \in DOMAIN merge.mergedVars :
            /\ k \notin DOMAIN remoteVars => merge.mergedVars[k] = localVars[k]
            /\ k \notin DOMAIN localVars => merge.mergedVars[k] = remoteVars[k]
            /\ (k \in DOMAIN localVars /\ k \in DOMAIN remoteVars) =>
                 /\ merge.mergedVars[k] \in {localVars[k], remoteVars[k]}
                 /\ merge.preferLocalFlag => merge.mergedVars[k] = localVars[k]
                 /\ merge.preferRemoteFlag => merge.mergedVars[k] = remoteVars[k]
  /\ (merge.ran /\ merge.preferLocalFlag /\ merge.preferRemoteFlag) =>
       (merge.rejected /\ ~merge.read /\ ~merge.wrote /\ merge.mergedVars = NoVars)
  /\ merge.rejected => (merge.preferLocalFlag /\ merge.preferRemoteFlag)

\* A differs and is resolved by --local, B comes from the remote side only
C24_Witness ==
  /\ merge.ran /\ merge.preferLocalFlag /\ ~merge.preferRemoteFlag
  /\ DOMAIN localVars = {"A"} /\ DOMAIN remoteVars = {"A", "B"}
  /\ localVars["A"] # remoteVars["A"]
  /\ DOMAIN merge.mergedVars = {"A", "B"}
  /\ merge.mergedVars["A"] = localVars["A"]
  /\ merge.mergedVars["B"] = remoteVars["B"]

\* a call the way pull makes it: DecryptContent with useEncryption set, or
\* UnmaskEnvContent with useMaskedEncryption set, the password not given
\* by flag and no key file in use
PullStyleDecode ==
  /\ res.keyAsked /\ ~globals.useKeyFile /\ globals.encryptionPassword = <<>>
  /\ \/ res.op = "decrypt" /\ globals.useEncryption
     \/ res.op = "unmask" /\ globals.useMaskedEncryption

\* C25: the confirmation prompt is shown only by encrypting and masking
\* calls; a decrypting or unmasking call made as pull makes it shows the
\* password prompt once and no confirmation prompt.
C25_NoConfirmationOnDecode ==
  /\ PullStyleDecode => asked = 1
  /\ asked = 2 => res.op \in {"encrypt", "mask"}

\* the two detections of pull.go:157-158 on the fetched content
DetectedEncrypted == OccursAt(content, EncMarkerNoLF, 1)

DetectedMasked == \E i \in 1..Len(content) : OccursAt(content, MaskHeader, i)

\* C26 as stated: DecryptContent runs only on content detected as whole-file
\* encrypted, UnmaskEnvContent only on content detected as masked and not
\* whole-file encrypted, and in every other case the fetched bytes are
\* written to .env unmodified.
C26_TransformMatchesFormat ==
  (pull.ran /\ pull.impl = "root") =>
    /\ pull.transform = "decrypt" => DetectedEncrypted
    /\ pull.transform = "unmask" => (DetectedMasked /\ ~DetectedEncrypted)
    /\ pull.transform = "none" => (pull.wrote /\ dotenv = content)

\* C26: DecryptContent runs only on content detected as whole-file
\* encrypted, UnmaskEnvContent only on content detected as masked and not
\* whole-file encrypted; in every other case the fetched bytes are written to
\* .env unmodified, except that a pull of content detected as neither, given
\* --decrypt or --unmask and answered no at "Continue anyway?", is canceled
\* and writes nothing.
C26_TransformMatchesFormatOrCanceled ==
  (pull.ran /\ pull.impl = "root") =>
    /\ pull.transform = "decrypt" => DetectedEncrypted
    /\ pull.transform = "unmask" => (DetectedMasked /\ ~DetectedEncrypted)
    /\ (pull.transform = "none" /\ ~pull.canceled) => (pull.wrote /\ dotenv = content)
    /\ pull.canceled =>
         (/\ ~DetectedEncrypted /\ ~DetectedMasked /\ pull.transform = "none"
          /\ ~pull.wrote /\ dotenv = OldEnv)

\* whole-file encrypted content pulled with --unmask and "Switch to full
\* decryption instead?" answered no: no transform, the bytes written as fetched
C26_Witness ==
  /\ pull.ran /\ pull.impl = "root" /\ ~pull.both
  /\ stage = "encrypted" /\ DetectedEncrypted
  /\ pull.useMaskedEncryption /\ ~pull.useEncryption
  /\ pull.transform = "none" /\ pull.wrote /\ dotenv = content

\* C27: every content pull detects as whole-file encrypted passes
\* DecryptContent's marker check, and a pull that decrypts such content is
\* never turned down with "content is not encrypted".
C27_DetectorAgreesWithCodec ==
  (pull.ran /\ pull.impl = "root" /\ pull.isEncrypted) =>
    /\ HasPrefix(content, EncMarker)
    /\ DecryptContent(content, [err |-> "key", key |-> <<>>]).err # "not_encrypted"
    /\ pull.err # "not_encrypted"

\* the file the key-file path of the process leads to
KeyFileNow == FileAt(files, ExpandHome(globals.encryptionKeyFile))

C29_KeyAfterStructuralChecks ==
  /\ (res.op = "decrypt" /\ ~OccursAt(content, EncMarker, 1)) =>
       (res.err = "not_encrypted" /\ ~res.keyAsked /\ asked = 0 /\ res.key = <<>>)
  /\ (/\ res.op = "decrypt" /\ OccursAt(content, EncMarker, 1)
      /\ ~IsBase64Text(SubSeq(content, Len(EncMarker) + 1, Len(content)))) =>
       (res.err = "decode" /\ ~res.keyAsked /\ asked = 0 /\ res.key = <<>>)
  /\ (res.op = "unmask" /\ ~(\E i \in 1..Len(content) : OccursAt(content, MaskHeader, i))) =>
       (res.err = "not_masked" /\ ~res.keyAsked /\ asked = 0 /\ res.key = <<>>)

\* the marker with "!" behind it, in a process that would have prompted for
\* the password
C29_Witness ==
  /\ res.op = "decrypt" /\ content = EncMarker \o <<33>>
  /\ ~globals.useKeyFile /\ globals.encryptionPassword = <<>>
  /\ res.err = "decode" /\ ~res.keyAsked /\ asked = 0

=============================================================================
